---- MODULE Spec2Model ----
(***************************************************************************)
(* Model of the series-resolution and query-strategy engine of delia       *)
(* (formerly dicom2hdf): PatientsDataExtractor (the patient iterator),     *)
(* PatientDataReader (availability check), DicomReader (series grouping),  *)
(* PatientDataQueryContext and the two patient data factories, and         *)
(* PatientsDatabase.create which drives a full pass.                       *)
(*                                                                         *)
(* A DICOM series is a record                                              *)
(*   uid, pid (PatientID of the first file of the series, the file whose   *)
(*   header DicomReader loads), other_pids (the PatientIDs of the other    *)
(*   files of the series), modality, desc (SeriesDescription or None when  *)
(*   the attribute is absent), decodable (whether SimpleITK reconstructs   *)
(*   the volume), direct (ReferencedSeriesSequence[0].SeriesInstanceUID or *)
(*   None), frame (the UID at the end of the                               *)
(*   ReferencedFrameOfReferenceSequence chain or None).                    *)
(* A dictionary of series descriptions / tag values (the LabelSpec) is a   *)
(* sequence of records [key, values] in insertion order, values being a    *)
(* list.  The attribute _series_descriptions is a record                   *)
(* [is_none, dict], is_none standing for python's None.                    *)
(* Under Spec the extractor is constructed with a dictionary or None (no    *)
(* path to a json file), with the default tag "SeriesDescription".         *)
(* JsonSpec is the specification of the persisted dictionary:              *)
(* save_series_descriptions_to_json and the setter of                      *)
(* path_to_series_description_json, over an empty root folder.  There the  *)
(* strings of the dictionary are sequences of code points and the strings  *)
(* of the file are sequences of bytes.  Under Spec no file exists at the    *)
(* path given to the setter of path_to_series_description_json.            *)
(* GroupingSpec is DicomReader.__get_paths_to_dicoms_from_series on the    *)
(* files of one folder, RadiomicsSpec is RadiomicsDataset.create driving   *)
(* the extractor, QuerySpec is the choice of the strategy in the           *)
(* four-strategy variants of the reader, and PromptSpec is the reader      *)
(* that asks the user for the missing series descriptions.                 *)
(***************************************************************************)
EXTENDS Integers, Sequences, FiniteSets, TLC

VARIABLES folders, erased, series_descriptions, erase_unused_dicom_files,
          transforms, current_index, patients_who_failed, result, repaired,
          json_file, path_to_series_description_json, preferred_encoding

\* The files of one patient folder in discovery order, and the outcome of
\* DicomReader.__get_paths_to_dicoms_from_series on them.
VARIABLES dicom_files, paths_to_dicoms_from_series

grouping_vars == <<dicom_files, paths_to_dicoms_from_series>>

\* The arguments paths_to_segmentations and series_descriptions of a reader of
\* the four-strategy variants, and the strategy it selected.
VARIABLES paths_to_segmentations, given_series_descriptions, query_strategy

query_vars == <<paths_to_segmentations, given_series_descriptions,
                query_strategy>>

\* The prompting PatientDataReader: the SeriesDescription of its dicom
\* headers, its dictionary of series descriptions, the position of the loop
\* of each pending call of check_availability_of_given_series_description
\* (the innermost call last), whether update_series_descriptions waits for
\* an answer, the number of answers refused, whether the outermost call has
\* returned.
VARIABLES header_series_descriptions, reader_series_descriptions,
          check_calls, waits_for_input, refused_answers, check_returned

prompt_vars == <<header_series_descriptions, reader_series_descriptions,
                 check_calls, waits_for_input, refused_answers,
                 check_returned>>

\* The arguments image_name and image_modality of RadiomicsDataset.create.
VARIABLES image_name, image_modality

radiomics_vars == <<image_name, image_modality>>

\* The variables of the specifications of the other components.
other_vars == <<grouping_vars, query_vars, prompt_vars, radiomics_vars>>

\* The file of the persisted dictionary, the attribute that holds its path
\* and the encoding open() uses when none is given.
json_vars == <<json_file, path_to_series_description_json, preferred_encoding>>

vars == <<folders, erased, series_descriptions, erase_unused_dicom_files,
          transforms, current_index, patients_who_failed, result, repaired,
          json_vars, other_vars>>

\* The state of the extractor and of the folders it reads.
extractor_vars == <<folders, erased, series_descriptions,
                    erase_unused_dicom_files, transforms, current_index,
                    patients_who_failed, result, repaired>>

None == "None"

UNKNOWN == "Unknown"

\* Largest number of patient folders under the root folder.
MaxPatients == 2

(***************************************************************************)
(* Generic list helpers (python list / dict semantics)                     *)
(***************************************************************************)
ToSet(list) == {list[i] : i \in 1..Len(list)}

Contains(list, v) == \E i \in 1..Len(list) : list[i] = v

Count(list, v) == Cardinality({i \in 1..Len(list) : list[i] = v})

Keys(tag_values) == [i \in 1..Len(tag_values) |-> tag_values[i].key]

\* dict[key]
Lookup(tag_values, key) ==
    tag_values[CHOOSE i \in 1..Len(tag_values) : tag_values[i].key = key].values

(***************************************************************************)
(* The patient folders on disk                                             *)
(***************************************************************************)
Img(uid, pid, modality, desc, decodable) ==
    [uid |-> uid, pid |-> pid, other_pids |-> {}, modality |-> modality,
     desc |-> desc, decodable |-> decodable, direct |-> None, frame |-> None]

Seg(uid, pid, modality, direct, frame) ==
    [uid |-> uid, pid |-> pid, other_pids |-> {}, modality |-> modality,
     desc |-> "seg", decodable |-> TRUE, direct |-> direct, frame |-> frame]

\* Contents of a patient folder, in discovery order, for the patient p.
FolderKinds(p) == {
    \* one CT series
    << Img("u1", p, "CT", "a", TRUE) >>,
    \* a CT series, a PT series and the RTSTRUCT drawn on the PT
    << Img("u1", p, "CT", "a", TRUE), Img("u2", p, "PT", "b", TRUE),
       Seg("u3", p, "RTSTRUCT", None, "u2") >>,
    \* two CT series with the same description, two segmentations of the
    \* first one, and a segmentation of a series that is not in the folder
    << Img("u1", p, "CT", "a", TRUE), Img("u2", p, "CT", "a", TRUE),
       Seg("u3", p, "SEG", "u1", None), Seg("u4", p, "RTSTRUCT", None, "u1"),
       Seg("u5", p, "SEG", "u9", None) >>,
    \* a series whose volume cannot be reconstructed, and a good one
    << Img("u1", p, "CT", "b", FALSE), Img("u2", p, "PT", "c", TRUE) >>,
    \* a series without SeriesDescription, a good one, and a segmentation
    \* whose header has both reference shapes
    << Img("u1", p, "CT", None, TRUE), Img("u2", p, "PT", "c", TRUE),
       Seg("u3", p, "SEG", "u1", "u2") >>,
    \* a segmentation whose header has neither reference shape
    << Img("u1", p, "CT", "a", TRUE), Seg("u2", p, "SEG", None, None) >>,
    \* files of two patients in one folder, in two series
    << Img("u1", p, "CT", "a", TRUE), Img("u2", 0, "PT", "b", TRUE) >>,
    \* files of two patients in one series
    << [Img("u1", p, "CT", "a", TRUE) EXCEPT !.other_pids = {0}] >>,
    \* no series that get_images_data keeps: one whose volume cannot be
    \* reconstructed and one without SeriesDescription
    << Img("u1", p, "CT", "b", FALSE), Img("u2", p, "MR", None, TRUE) >>
  }

\* The folders the model places after the first one.
LaterFolderKinds(p) == {
    << Img("u1", p, "CT", "a", TRUE) >>,
    << Img("u1", p, "CT", "a", TRUE), Img("u2", p, "PT", "b", TRUE),
       Seg("u3", p, "RTSTRUCT", None, "u2") >>,
    << Img("u1", p, "CT", "b", FALSE), Img("u2", p, "PT", "c", TRUE) >>,
    << Img("u1", p, "CT", "a", TRUE), Seg("u2", p, "SEG", None, None) >>
  }

\* The contents the model gives to the i-th folder of the listing.
FolderKindsAt(i) == IF i = 1 THEN FolderKinds(i) ELSE LaterFolderKinds(i)

Entry(key, values) == [key |-> key, values |-> values]

\* self._series_descriptions
NoneDict == [is_none |-> TRUE, dict |-> << >>]

SomeDict(d) == [is_none |-> FALSE, dict |-> d]

\* Dictionaries given at construction.
InitialTagValues == {
    << >>,
    << Entry("CT_A", <<"a">>) >>,
    << Entry("CT_A", <<"a">>), Entry("PT_B", <<"b">>) >>,
    << Entry("PT_C", <<"c">>), Entry("X", <<"d">>) >>,
    << Entry("L1", <<"a">>), Entry("L2", <<"b">>), Entry("L3", <<"a">>) >>,
    << Entry("L1", <<UNKNOWN, "b">>) >>
  }

\* Dictionaries handed to the series_descriptions setter after construction.
SetterInputs == {
    << Entry("CT_A", <<"a">>), Entry("PT_B", <<"b">>) >>,
    << Entry("L1", <<"a">>), Entry("L2", <<"b">>), Entry("L3", <<"a">>) >>,
    << Entry("L1", <<"a", "b">>), Entry("L2", <<"b">>) >>
  }

\* os.listdir(path_to_patients_folder): the folders in listing order.
paths_to_patients_folders == [i \in 1..Len(folders) |-> i]

\* __len__
NumberOfPatients == Len(paths_to_patients_folders)

\* The series whose files are still on disk in the folder at path i, when the
\* series of the set er have been removed.
DiskFolder(i, er) ==
    SelectSeq(folders[i], LAMBDA s : <<i, s.uid>> \notin er)

(***************************************************************************)
(* DicomReader                                                             *)
(***************************************************************************)
\* SegmentationStrategies.get_available_modalities()
AvailableSegmentationModalities == {"SEG", "RTSTRUCT"}

IsSegmentation(s) == s.modality \in AvailableSegmentationModalities

\* DicomReader._get_series_description
GetSeriesDescription(s) == IF s.desc = None THEN UNKNOWN ELSE s.desc

\* DicomReader.__get_series_data_dict: the error it raises, or None.
SeriesDataDictError(folder) ==
    LET all_patient_ids == {folder[i].pid : i \in 1..Len(folder)}
    IN  IF Cardinality(all_patient_ids) = 0 THEN "AssertionError:NoDicomFiles"
        ELSE IF Cardinality(all_patient_ids) > 1
             THEN "AssertionError:SeveralPatientIds"
             ELSE None

\* DicomReader.get_dicom_headers(remove_segmentations=True)
GetDicomHeaders(folder) == SelectSeq(folder, LAMBDA s : ~IsSegmentation(s))

\* DicomReader._segmentations_series_data_dict, as used by
\* PatientDataReader.paths_to_segmentations
PathsToSegmentations(folder) == SelectSeq(folder, IsSegmentation)

\* Mutant of ImageIsLoaded: the segmentation series are not removed.
ImageIsLoadedWithSegmentations(s) ==
    /\ GetSeriesDescription(s) # UNKNOWN
    /\ s.decodable

\* Whether get_images_data(remove_segmentations=True) keeps the series.
ImageIsLoaded(s) ==
    /\ ~IsSegmentation(s)
    /\ GetSeriesDescription(s) # UNKNOWN
    /\ s.decodable

\* Mutant of GetImagesData: the RuntimeError of the decoder ends the loop.
RECURSIVE GetImagesDataUntilError(_)
GetImagesDataUntilError(folder) ==
    IF Len(folder) = 0 THEN << >>
    ELSE IF ~IsSegmentation(Head(folder)) /\ Head(folder).desc # None
            /\ ~Head(folder).decodable
    THEN << >>
    ELSE (IF ImageIsLoaded(Head(folder)) THEN << Head(folder) >> ELSE << >>)
         \o GetImagesDataUntilError(Tail(folder))

\* DicomReader.get_images_data(remove_segmentations=True)
GetImagesData(folder) == SelectSeq(folder, ImageIsLoaded)

(***************************************************************************)
(* BasePatientDataFactory and the two factories                            *)
(***************************************************************************)
NoReference == "AssertionError:NoReferenceUid"

\* Mutant of GetSegmentationReferenceUid: the frame of reference chain is
\* tried before the direct sequence.
GetSegmentationReferenceUidFrameFirst(h) ==
    IF h.frame # None THEN h.frame
    ELSE IF h.direct # None THEN h.direct
    ELSE NoReference

\* BasePatientDataFactory.get_segmentation_reference_uid
GetSegmentationReferenceUid(h) ==
    IF h.direct # None THEN h.direct
    ELSE IF h.frame # None THEN h.frame
         ELSE NoReference

\* The inner loop over self._paths_to_segmentations: the exception raised by
\* the resolution of a reference UID, or None.
SegmentationLoopError(segs) ==
    IF \E j \in 1..Len(segs) : GetSegmentationReferenceUid(segs[j]) = NoReference
    THEN NoReference
    ELSE None

\* Whether the factories append the segmentation to the list of the image.
SegmentationMatches(image, seg) ==
    image.uid = GetSegmentationReferenceUid(seg)

\* Mutant of SegmentationsOf: only the first matching segmentation is kept.
SegmentationsOfFirst(image, segs) ==
    LET matching == SelectSeq(segs, LAMBDA s : image.uid = GetSegmentationReferenceUid(s))
    IN  IF Len(matching) = 0 THEN << >> ELSE << matching[1].uid >>

\* The inner loop over self._paths_to_segmentations: the list 'segmentations'.
SegmentationsOf(image, segs) ==
    LET matching == SelectSeq(segs, LAMBDA s : SegmentationMatches(image, s))
    IN  [j \in 1..Len(matching) |-> matching[j].uid]

\* ImageAndSegmentationDataModel
ImageAndSegmentation(image, series_key, segmentations) ==
    [uid |-> image.uid, series_key |-> series_key,
     modality |-> image.modality, segmentations |-> segmentations]

\* DefaultPatientDataFactory.create_patient_data, the loop from the image k on.
RECURSIVE DefaultLoop(_, _, _, _)
DefaultLoop(images, segs, k, data) ==
    IF k > Len(images) THEN [data |-> data, erased |-> {}, error |-> None]
    ELSE IF SegmentationLoopError(segs) # None
         THEN [data |-> data, erased |-> {},
               error |-> SegmentationLoopError(segs)]
         ELSE DefaultLoop(images, segs, k + 1,
                          Append(data, ImageAndSegmentation(
                              images[k], None, SegmentationsOf(images[k], segs))))

\* The loop over self._tag_values.items() with its break: the first key whose
\* list contains the tag value, or None.
RECURSIVE SeriesKeyFrom(_, _, _)
SeriesKeyFrom(tag_values, tag_value, i) ==
    IF i > Len(tag_values) THEN None
    ELSE IF Contains(tag_values[i].values, tag_value) THEN tag_values[i].key
         ELSE SeriesKeyFrom(tag_values, tag_value, i + 1)

\* Mutant of SeriesKeyOf: the tag value is looked up among the keys of the
\* dictionary instead of in the lists.
SeriesKeyOfKeys(tag_values, tag_value) ==
    IF Contains(Keys(tag_values), tag_value) THEN tag_value ELSE None

SeriesKeyOf(tag_values, tag_value) == SeriesKeyFrom(tag_values, tag_value, 1)

\* Mutant of ErasesImage: image_added is not consulted.
ErasesImageAdded(image_added, erase) == erase

\* Mutant of ErasesImage: the flag erase_unused_dicom_files is not consulted.
ErasesImageWhateverTheFlag(image_added, erase) == image_added = FALSE

\* Whether the image is erased once the loop over the labels is over.
ErasesImage(image_added, erase) == image_added = FALSE /\ erase

\* SpecificTagPatientDataFactory.create_patient_data, the loop from the
\* image k on; er is the set of the uids of the series erased so far.
RECURSIVE SpecificTagLoop(_, _, _, _, _, _, _)
SpecificTagLoop(images, segs, tag_values, erase, k, data, er) ==
    IF k > Len(images) THEN [data |-> data, erased |-> er, error |-> None]
    ELSE LET image == images[k]
             series_key == SeriesKeyOf(tag_values, image.desc)
         IN  IF series_key # None
             THEN IF SegmentationLoopError(segs) # None
                  THEN [data |-> data, erased |-> er,
                        error |-> SegmentationLoopError(segs)]
                  ELSE SpecificTagLoop(images, segs, tag_values, erase, k + 1,
                           Append(data, ImageAndSegmentation(
                               image, series_key, SegmentationsOf(image, segs))),
                           IF ErasesImage(TRUE, erase) THEN er \cup {image.uid}
                           ELSE er)
             ELSE SpecificTagLoop(images, segs, tag_values, erase, k + 1, data,
                      IF ErasesImage(FALSE, erase) THEN er \cup {image.uid}
                      ELSE er)

\* Mutant of PatientDataQueryStrategy: 'is not None' instead of truthiness.
PatientDataQueryStrategyNotNone(sd) ==
    IF ~sd.is_none THEN "TAG_VALUE" ELSE "DEFAULT"

\* PatientDataQueryContext.patient_data_query_strategy
PatientDataQueryStrategy(sd) ==
    IF ~sd.is_none /\ Len(sd.dict) > 0 THEN "TAG_VALUE" ELSE "DEFAULT"

\* The key under which set_transforms_keys registers the image.
TransformsKey(e) == IF e.series_key # None THEN e.series_key ELSE e.modality

\* Mutant of SetTransformsKeysError: the keys are never compared.
SetTransformsKeysErrorNever(data) == None

\* set_transforms_keys: the error it raises, or None.
SetTransformsKeysError(data) ==
    IF \E i, j \in 1..Len(data) :
           i < j /\ TransformsKey(data[i]) = TransformsKey(data[j])
    THEN "AssertionError:KeyAlreadyInDict"
    ELSE None

\* set_transforms_keys, the loop from the image k on: keys is the list 'keys'
\* and assigned holds the attribute transforms_key of each image, None until
\* the loop assigns it.
RECURSIVE SetTransformsKeysLoop(_, _, _, _)
SetTransformsKeysLoop(data, k, keys, assigned) ==
    IF k > Len(data) THEN [error |-> None, transforms_keys |-> assigned]
    ELSE IF Contains(keys, TransformsKey(data[k]))
         THEN [error |-> "AssertionError:KeyAlreadyInDict",
               transforms_keys |-> assigned]
         ELSE SetTransformsKeysLoop(data, k + 1,
                  Append(keys, TransformsKey(data[k])),
                  [assigned EXCEPT ![k] = TransformsKey(data[k])])

\* set_transforms_keys(patient_dataset)
SetTransformsKeys(data) ==
    SetTransformsKeysLoop(data, 1, << >>, [i \in 1..Len(data) |-> None])

\* apply_transforms(patient_dataset, transforms): the error raised, the
\* transforms_key of each image and whether the transforms were applied to it
\* when the call ends.
ApplyTransforms(data) ==
    LET Applied(keys) ==
            [error |-> keys.error, transforms_keys |-> keys.transforms_keys,
             transformed |-> [i \in 1..Len(data) |-> keys.error = None]]
    IN  Applied(SetTransformsKeys(data))

\* PatientDataQueryContext.create_patient_data on the folder: the factory of
\* the strategy is built (get_images_data) and its create_patient_data runs.
CreatePatientData(folder, sd, erase) ==
    LET images == GetImagesData(folder)
        segs == PathsToSegmentations(folder)
        WithPatientId(loop) ==
            IF loop.error # None THEN loop
            ELSE IF Len(images) = 0
                 THEN [data |-> loop.data, erased |-> loop.erased,
                       error |-> "IndexError:PatientId"]
                 ELSE loop
    IN  WithPatientId(
            IF PatientDataQueryStrategy(sd) = "TAG_VALUE"
            THEN SpecificTagLoop(images, segs, sd.dict, erase, 1, << >>, {})
            ELSE DefaultLoop(images, segs, 1, << >>))

(***************************************************************************)
(* PatientDataReader                                                       *)
(***************************************************************************)
\* PatientDataReader.available_tag_values
AvailableTagValues(folder) ==
    LET headers == GetDicomHeaders(folder)
    IN  [i \in 1..Len(headers) |-> GetSeriesDescription(headers[i])]

\* Mutant of IsAvailable: all() instead of any().
IsAvailableAll(tag_value_list, available) ==
    \A i \in 1..Len(tag_value_list) : Contains(available, tag_value_list[i])

\* The test of check_availability_of_given_tag_value for one label.
IsAvailable(tag_value_list, available) ==
    \E i \in 1..Len(tag_value_list) : Contains(available, tag_value_list[i])

\* PatientDataReader.failed_images once check_availability_of_given_tag_value
\* has run: the keys recorded by record_failed_images, in dictionary order.
FailedImages(sd, folder) ==
    IF sd.is_none THEN << >>
    ELSE LET failing == SelectSeq(sd.dict, LAMBDA e :
                            ~IsAvailable(e.values, AvailableTagValues(folder)))
         IN  Keys(failing)

\* PatientDataReader.__init__: the error it raises, or None.
\* record_failed_images formats self.patient_id, the PatientID of the first
\* image header.
ReaderError(sd, folder) ==
    IF SeriesDataDictError(folder) # None THEN SeriesDataDictError(folder)
    ELSE IF Len(FailedImages(sd, folder)) > 0 /\ Len(GetDicomHeaders(folder)) = 0
         THEN "IndexError:PatientId"
         ELSE None

\* PatientDataReader.patient_id
ReaderPatientId(folder) == GetDicomHeaders(folder)[1].pid

\* BasePatientDataFactory.patient_id
FactoryPatientId(folder) == GetImagesData(folder)[1].pid

NoRecord == [patient_id |-> 0, patient_path |-> 0, data |-> << >>]

\* PatientDataReader.get_patient_dataset(transforms) on the folder at path.
GetPatientDataset(path, folder, sd, erase, with_transforms) ==
    LET Dataset(created, newly_erased) ==
            IF created.error # None
            THEN [error |-> created.error, erased |-> newly_erased,
                  record |-> NoRecord]
            ELSE IF with_transforms /\ SetTransformsKeysError(created.data) # None
                 THEN [error |-> SetTransformsKeysError(created.data),
                       erased |-> newly_erased, record |-> NoRecord]
                 ELSE [error |-> None, erased |-> newly_erased,
                       record |-> [patient_id |-> FactoryPatientId(folder),
                                   patient_path |-> path,
                                   data |-> created.data]]
        Erased(created) == Dataset(created, {<<path, u>> : u \in created.erased})
    IN  Erased(CreatePatientData(folder, sd, erase))

(***************************************************************************)
(* PatientsDataExtractor                                                   *)
(***************************************************************************)
\* The series_descriptions setter: the error it raises, or None.
SetterError(d) ==
    IF \E i \in 1..(Len(d) - 1) :
           ToSet(d[i].values) \cap ToSet(d[i + 1].values) # {}
    THEN "AssertionError:Overlap"
    ELSE None

\* The set_intersection of the first pair of items on which the setter raises.
SetterOverlap(d) ==
    LET overlapping == {i \in 1..(Len(d) - 1) :
                           ToSet(d[i].values) \cap ToSet(d[i + 1].values) # {}}
        first == CHOOSE i \in overlapping : \A j \in overlapping : i <= j
    IN  ToSet(d[first].values) \cap ToSet(d[first + 1].values)

\* PatientWhoFailed
PatientWhoFailed(sd, folder) ==
    LET failed == FailedImages(sd, folder)
    IN  [id |-> ReaderPatientId(folder),
         failed_images |-> [i \in 1..Len(failed) |->
                               Entry(failed[i], Lookup(sd.dict, failed[i]))],
         available |-> AvailableTagValues(folder)]

\* Mutant of AppendFailure: the entry is put in front of the list.
AppendFailureInFront(failed, entry) == << entry >> \o failed

\* self._patients_who_failed.append(...)
AppendFailure(failed, entry) == Append(failed, entry)

\* Mutant of NextIndex: the index is moved two folders on.
NextIndexByTwo(index) == index + 2

\* self._current_index += 1
NextIndex(index) == index + 1

\* Mutant of CurrentPath: the listing is walked from its end.
CurrentPathReversed(index) ==
    paths_to_patients_folders[NumberOfPatients - index]

\* self.paths_to_patients_folders[self._current_index]
CurrentPath(index) == paths_to_patients_folders[index + 1]

\* The test on which send calls self.throw().
IsExhausted(index) == index = NumberOfPatients

\* The outcome of an operation: its name, how it ended ("record", "return",
\* "StopIteration" or "error"), the exception raised, the strategy logged by
\* get_patient_dataset, the patient record returned by send, the list
\* returned by PatientsDatabase.create and the overlapping values named by
\* the message of the error of the series_descriptions setter.
Outcome(op, kind, error, strategy, record, returned) ==
    [op |-> op, kind |-> kind, error |-> error, strategy |-> strategy,
     record |-> record, returned |-> returned, overlap |-> {}]

\* PatientsDataExtractor.send from the position index, with the failures
\* failed and the series of er erased: the new position, failures, erased
\* series and the outcome.
SendOp(index, failed, er) ==
    IF IsExhausted(index)
    THEN [index |-> index, failed |-> failed, erased |-> er,
          out |-> Outcome("send", "StopIteration", "StopIteration", None,
                          NoRecord, << >>)]
    ELSE LET path == CurrentPath(index)
             folder == DiskFolder(path, er)
             sd == series_descriptions
         IN  IF ReaderError(sd, folder) # None
             THEN [index |-> index, failed |-> failed, erased |-> er,
                   out |-> Outcome("send", "error", ReaderError(sd, folder),
                                   None, NoRecord, << >>)]
             ELSE IF ~sd.is_none /\ SetterError(sd.dict) # None
             THEN [index |-> index, failed |-> failed, erased |-> er,
                   out |-> Outcome("send", "error", SetterError(sd.dict),
                                   None, NoRecord, << >>)]
             ELSE LET new_failed ==
                          IF Len(FailedImages(sd, folder)) > 0
                          THEN AppendFailure(failed,
                                             PatientWhoFailed(sd, folder))
                          ELSE failed
                      Returned(dataset) ==
                          [index |-> NextIndex(index), failed |-> new_failed,
                           erased |-> er \cup dataset.erased,
                           out |-> Outcome("send",
                                      IF dataset.error # None THEN "error"
                                      ELSE "record",
                                      dataset.error,
                                      IF dataset.error # None THEN None
                                      ELSE PatientDataQueryStrategy(sd),
                                      dataset.record, << >>)]
                  IN  Returned(GetPatientDataset(path, folder, sd,
                                   erase_unused_dicom_files, transforms))

\* Mutant of ResetOp: the index is not put back to 0.
ResetOpKeepsIndex(index, failed) == [index |-> index, failed |-> << >>]

\* Mutant of ResetOp: the list of failures is not emptied.
ResetOpKeepsFailures(index, failed) == [index |-> 0, failed |-> failed]

\* PatientsDataExtractor.reset
ResetOp(index, failed) == [index |-> 0, failed |-> << >>]

Send ==
    \E s \in {SendOp(current_index, patients_who_failed, erased)} :
        /\ current_index' = s.index
        /\ patients_who_failed' = s.failed
        /\ erased' = s.erased
        /\ result' = s.out
        /\ UNCHANGED <<json_vars, other_vars, folders, series_descriptions, erase_unused_dicom_files,
                       transforms, repaired>>

Reset ==
    LET r == ResetOp(current_index, patients_who_failed)
    IN  /\ current_index' = r.index
        /\ patients_who_failed' = r.failed
        /\ result' = Outcome("reset", "return", None, None, NoRecord, << >>)
        /\ UNCHANGED <<json_vars, other_vars, folders, erased, series_descriptions,
                       erase_unused_dicom_files, transforms, repaired>>

\* Generator.close: self.throw(GeneratorExit) raises GeneratorExit, which
\* close catches.
Close ==
    /\ result' = Outcome("close", "return", None, None, NoRecord, << >>)
    /\ UNCHANGED <<json_vars, other_vars, folders, erased, series_descriptions,
                   erase_unused_dicom_files, transforms, current_index,
                   patients_who_failed, repaired>>

\* Mutant of SetSeriesDescriptions: the dictionary is stored before the items
\* are compared.
SetSeriesDescriptionsStoredFirst(d) ==
    /\ series_descriptions' = SomeDict(d)
    /\ repaired' = {}
    /\ result' = IF SetterError(d) # None
                 THEN [Outcome("set", "error", SetterError(d), None,
                               NoRecord, << >>)
                          EXCEPT !.overlap = SetterOverlap(d)]
                 ELSE Outcome("set", "return", None, None, NoRecord, << >>)
    /\ UNCHANGED <<json_vars, other_vars, folders, erased,
                   erase_unused_dicom_files, transforms, current_index,
                   patients_who_failed>>

\* The series_descriptions setter called with the dictionary d.
SetSeriesDescriptions(d) ==
    /\ IF SetterError(d) # None
       THEN /\ result' = [Outcome("set", "error", SetterError(d), None,
                                  NoRecord, << >>)
                              EXCEPT !.overlap = SetterOverlap(d)]
            /\ UNCHANGED <<series_descriptions, repaired>>
       ELSE /\ series_descriptions' = SomeDict(d)
            /\ repaired' = {}
            /\ result' = Outcome("set", "return", None, None, NoRecord, << >>)
    /\ UNCHANGED <<json_vars, other_vars, folders, erased, erase_unused_dicom_files, transforms,
                   current_index, patients_who_failed>>

(***************************************************************************)
(* PatientsDatabase.create and the repair of the tag values (ex04)         *)
(***************************************************************************)
\* The loop 'for patient_dataset in patients_data_extractor': send is called
\* until it raises; StopIteration ends the loop, another exception leaves it.
RECURSIVE FullPass(_, _, _)
FullPass(index, failed, er) ==
    LET Loop(s) ==
            IF s.out.kind = "record" THEN FullPass(s.index, s.failed, s.erased)
            ELSE s
    IN  Loop(SendOp(index, failed, er))

\* The outcomes of the advances of the same loop, in order: the records and
\* the exception that ends it.
RECURSIVE PassOutcomes(_, _, _)
PassOutcomes(index, failed, er) ==
    LET Loop(s) ==
            IF s.out.kind = "record"
            THEN << s.out >> \o PassOutcomes(s.index, s.failed, s.erased)
            ELSE << s.out >>
    IN  Loop(SendOp(index, failed, er))

\* reset() followed by a full pass: the outcomes of the advances and the
\* list of failures when the loop ends.
PassAfterReset(index, failed, er) ==
    LET Pass(r) ==
            [outcomes |-> PassOutcomes(r.index, r.failed, er),
             failed |-> FullPass(r.index, r.failed, er).failed]
    IN  Pass(ResetOp(index, failed))

\* The end of PatientsDatabase.create: close(), reset(), and the list that is
\* returned, patients_data_extractor.patients_who_failed.
CreateEpilogue(index, failed) ==
    LET after == ResetOp(index, failed)
    IN  [index |-> after.index, failed |-> after.failed,
         returned |-> after.failed]

\* PatientsDatabase.create(patients_data_extractor, overwrite_database=True)
Create ==
    \E start \in {ResetOp(current_index, patients_who_failed)} :
    \E pass \in {FullPass(start.index, start.failed, erased)} :
    \E end \in {CreateEpilogue(pass.index, pass.failed)} :
        /\ erased' = pass.erased
        /\ IF pass.out.kind = "error"
           THEN /\ current_index' = pass.index
                /\ patients_who_failed' = pass.failed
                /\ result' = Outcome("create", "error", pass.out.error, None,
                                     NoRecord, << >>)
           ELSE /\ current_index' = end.index
                /\ patients_who_failed' = end.failed
                /\ result' = Outcome("create", "return", None, None, NoRecord,
                                     end.returned)
        /\ UNCHANGED <<json_vars, other_vars, folders, series_descriptions, erase_unused_dicom_files,
                       transforms, repaired>>

\* The (patient, failed label) pairs of a list of PatientWhoFailed, in the
\* order of the two loops of get_updated_tag_values.
RECURSIVE FailedPairs(_, _)
FailedPairs(failed, k) ==
    IF k > Len(failed) THEN << >>
    ELSE [i \in 1..Len(failed[k].failed_images) |->
             [id |-> failed[k].id, key |-> failed[k].failed_images[i].key,
              available |-> failed[k].available]]
         \o FailedPairs(failed, k + 1)

\* Mutant of AddTagValue: the extended list is not stored.
AddTagValueLost(tag_values, key, v) == tag_values

\* tag_values[image] += [new_tag_value]
AddTagValue(tag_values, key, v) ==
    [i \in 1..Len(tag_values) |->
        IF tag_values[i].key = key
        THEN Entry(key, Append(tag_values[i].values, v))
        ELSE tag_values[i]]

\* get_updated_tag_values from the pair k on: the dictionaries it can return,
\* one for each sequence of valid answers of the user.
RECURSIVE UpdatedTagValues(_, _, _)
UpdatedTagValues(pairs, k, tag_values) ==
    IF k > Len(pairs) THEN {tag_values}
    ELSE IF IsAvailable(Lookup(tag_values, pairs[k].key), pairs[k].available)
         THEN UpdatedTagValues(pairs, k + 1, tag_values)
         ELSE UNION {UpdatedTagValues(pairs, k + 1,
                         AddTagValue(tag_values, pairs[k].key, v)) :
                     v \in ToSet(pairs[k].available)}

\* ex04: after a full pass, the dictionary is updated from the failure list
\* and an extractor is constructed over the same folders with the result.
UpdateTagValues ==
    /\ IsExhausted(current_index)
    /\ Len(patients_who_failed) > 0
    /\ ~series_descriptions.is_none
    /\ \E pairs \in {FailedPairs(patients_who_failed, 1)} :
           /\ \A k \in 1..Len(pairs) :
                  Contains(Keys(series_descriptions.dict), pairs[k].key)
           /\ \E d \in UpdatedTagValues(pairs, 1, series_descriptions.dict) :
                  IF SetterError(d) # None
                  THEN /\ result' = Outcome("update", "error", SetterError(d),
                                            None, NoRecord, << >>)
                       /\ UNCHANGED <<series_descriptions, current_index,
                                      patients_who_failed, repaired>>
                  ELSE /\ series_descriptions' = SomeDict(d)
                       /\ current_index' = 0
                       /\ patients_who_failed' = << >>
                       /\ repaired' = {<<pairs[k].id, pairs[k].key>> :
                                          k \in 1..Len(pairs)}
                       /\ result' = Outcome("update", "return", None, None,
                                            NoRecord, << >>)
    /\ UNCHANGED <<json_vars, other_vars, folders, erased, erase_unused_dicom_files, transforms>>

(***************************************************************************)
(* The persisted dictionary (json)                                         *)
(***************************************************************************)
\* Largest number of labels and of accepted values per label of the
\* dictionaries that are persisted.
MaxJsonLabels == 2

MaxJsonValues == 1

\* The strings of those dictionaries: "a", "\u00e9" and "a\u00e9".
JsonStrings == {<<97>>, <<233>>, <<97, 233>>}

JsonValueLists == UNION {[1..n -> JsonStrings] : n \in 0..MaxJsonValues}

\* The dictionaries with distinct keys.
JsonLabelSpecs ==
    UNION {{d \in [1..n -> [key : JsonStrings, values : JsonValueLists]] :
               \A i, j \in 1..n : i # j => d[i].key # d[j].key} :
           n \in 0..MaxJsonLabels}

\* Dictionaries handed to the series_descriptions setter while a file exists.
JsonSetterInputs == {
    << >>,
    << Entry(<<97>>, << <<233>> >>) >>,
    << Entry(<<233>>, << <<97>> >>), Entry(<<97>>, << <<97, 233>> >>) >>,
    << Entry(<<97>>, << <<233>> >>), Entry(<<233>>, << <<233>> >>) >>
  }

NoFile == [exists |-> FALSE, text |-> << >>]

\* str.encode("utf-8") for code points below 0x800.
RECURSIVE EncodeUtf8(_)
EncodeUtf8(str) ==
    IF Len(str) = 0 THEN << >>
    ELSE (IF Head(str) < 128 THEN << Head(str) >>
          ELSE << 192 + (Head(str) \div 64), 128 + (Head(str) % 64) >>)
         \o EncodeUtf8(Tail(str))

\* bytes.decode("utf-8") of one- and two-byte sequences; the result is
\* << >> with error set when the bytes are not valid.
RECURSIVE DecodeUtf8(_)
DecodeUtf8(bytes) ==
    IF Len(bytes) = 0 THEN [error |-> FALSE, str |-> << >>]
    ELSE IF Head(bytes) < 128
    THEN LET Prepend(rest) ==
                 [error |-> rest.error, str |-> << Head(bytes) >> \o rest.str]
         IN  Prepend(DecodeUtf8(Tail(bytes)))
    ELSE IF /\ Head(bytes) >= 194 /\ Head(bytes) < 224 /\ Len(bytes) >= 2
            /\ bytes[2] >= 128 /\ bytes[2] < 192
    THEN LET Prepend(rest) ==
                 [error |-> rest.error,
                  str |-> << (Head(bytes) - 192) * 64 + (bytes[2] - 128) >>
                          \o rest.str]
         IN  Prepend(DecodeUtf8(Tail(Tail(bytes))))
    ELSE [error |-> TRUE, str |-> << >>]

\* The bytes that cp1252 does not define.
Cp1252Undefined == {129, 141, 143, 144, 157}

\* The code points of the bytes 0x80..0x9F in cp1252 (0 where undefined).
Cp1252High ==
    << 8364, 0, 8218, 402, 8222, 8230, 8224, 8225, 710, 8240, 352, 8249, 338,
       0, 381, 0, 0, 8216, 8217, 8220, 8221, 8226, 8211, 8212, 732, 8482, 353,
       8250, 339, 0, 382, 376 >>

\* bytes.decode("cp1252")
DecodeCp1252(bytes) ==
    [error |-> \E i \in 1..Len(bytes) : bytes[i] \in Cp1252Undefined,
     str |-> [i \in 1..Len(bytes) |->
                 IF bytes[i] < 128 \/ bytes[i] >= 160 THEN bytes[i]
                 ELSE Cp1252High[bytes[i] - 127]]]

\* The text read by open(path, "r"): the bytes decoded with the preferred
\* encoding of the platform.
DecodeText(bytes, encoding) ==
    IF encoding = "utf-8" THEN DecodeUtf8(bytes) ELSE DecodeCp1252(bytes)

\* json.dump(..., ensure_ascii=False) into a file opened with
\* encoding='utf-8': the members in the order of the dictionary, each
\* string as its bytes.
JsonDump(d) ==
    [i \in 1..Len(d) |->
        [key |-> EncodeUtf8(d[i].key),
         values |-> [j \in 1..Len(d[i].values) |-> EncodeUtf8(d[i].values[j])]]]

\* json.load of the file opened with open(path, "r"): the members in the
\* order of the text, each string decoded with the preferred encoding.
JsonLoad(text, encoding) ==
    [error |-> \E i \in 1..Len(text) :
                  \/ DecodeText(text[i].key, encoding).error
                  \/ \E j \in 1..Len(text[i].values) :
                         DecodeText(text[i].values[j], encoding).error,
     dict |-> [i \in 1..Len(text) |->
                  [key |-> DecodeText(text[i].key, encoding).str,
                   values |-> [j \in 1..Len(text[i].values) |->
                                  DecodeText(text[i].values[j], encoding).str]]]]

\* PatientsDataExtractor.save_series_descriptions_to_json(path), for the
\* dictionaries of JsonLabelSpecs.
SaveSeriesDescriptionsToJson ==
    /\ ~series_descriptions.is_none
    /\ series_descriptions.dict \in JsonLabelSpecs
    /\ json_file' = [exists |-> TRUE, text |-> JsonDump(series_descriptions.dict)]
    /\ result' = Outcome("save", "return", None, None, NoRecord, << >>)
    /\ UNCHANGED <<other_vars, folders, erased, series_descriptions,
                   erase_unused_dicom_files, transforms, current_index,
                   patients_who_failed, repaired,
                   path_to_series_description_json, preferred_encoding>>

\* The setter of path_to_series_description_json: the file is read and the
\* dictionary is handed to the setter of series_descriptions.
SetPathToSeriesDescriptionJson ==
    /\ \E loaded \in {JsonLoad(json_file.text, preferred_encoding)} :
           IF ~json_file.exists
           THEN /\ result' = Outcome("load", "error", "FileNotFoundError",
                                     None, NoRecord, << >>)
                /\ UNCHANGED <<series_descriptions,
                               path_to_series_description_json>>
           ELSE IF loaded.error
           THEN /\ result' = Outcome("load", "error", "UnicodeDecodeError",
                                     None, NoRecord, << >>)
                /\ UNCHANGED <<series_descriptions,
                               path_to_series_description_json>>
           ELSE IF SetterError(loaded.dict) # None
           THEN /\ result' = Outcome("load", "error",
                                     SetterError(loaded.dict), None, NoRecord,
                                     << >>)
                /\ UNCHANGED <<series_descriptions,
                               path_to_series_description_json>>
           ELSE /\ series_descriptions' = SomeDict(loaded.dict)
                /\ path_to_series_description_json' = "path"
                /\ result' = Outcome("load", "return", None, None, NoRecord,
                                     << >>)
    /\ UNCHANGED <<other_vars, folders, erased, erase_unused_dicom_files,
                   transforms, current_index, patients_who_failed, repaired,
                   json_file, preferred_encoding>>

(***************************************************************************)
(* DicomReader.__get_paths_to_dicoms_from_series, file by file             *)
(***************************************************************************)
\* Largest number of files in the patient folder.
MaxFiles == 3

\* The header of a file: its SeriesInstanceUID, whether it has the attribute
\* SliceLocation and, if so, its value.
DicomHeader(uid, has_slice_location, slice_location) ==
    [SeriesInstanceUID |-> uid, has_slice_location |-> has_slice_location,
     SliceLocation |-> slice_location]

DicomHeaders ==
    {DicomHeader(uid, FALSE, 0) : uid \in {"s1", "s2"}}
    \cup {DicomHeader(uid, TRUE, z) : uid \in {"s1", "s2"}, z \in {1, 2}}

\* No call of __get_paths_to_dicoms_from_series has been made.
NotGrouped == [done |-> FALSE, error |-> None, series |-> << >>]

\* The list 'paths' with the header of each file: the path of a file is its
\* rank in discovery order.
PathsAndHeaders(files) ==
    [i \in 1..Len(files) |-> [path |-> i, header |-> files[i]]]

\* paths_and_headers_for_each_series[series_id]
PathsAndHeadersOfSeries(files, series_id) ==
    SelectSeq(PathsAndHeaders(files),
              LAMBDA f : f.header.SeriesInstanceUID = series_id)

\* The keys of paths_and_headers_for_each_series, in insertion order.
RECURSIVE SeriesIdsFrom(_, _, _)
SeriesIdsFrom(files, i, ids) ==
    IF i > Len(files) THEN ids
    ELSE SeriesIdsFrom(files, i + 1,
             IF Contains(ids, files[i].SeriesInstanceUID) THEN ids
             ELSE Append(ids, files[i].SeriesInstanceUID))

\* sorted(): the element e is inserted after the elements of the sorted list
\* whose key is not larger (the sort is stable).
RECURSIVE InsertSorted(_, _, _)
InsertSorted(sorted, e, i) ==
    IF i > Len(sorted) THEN Append(sorted, e)
    ELSE IF sorted[i].header.SliceLocation > e.header.SliceLocation
         THEN SubSeq(sorted, 1, i - 1) \o << e >>
              \o SubSeq(sorted, i, Len(sorted))
         ELSE InsertSorted(sorted, e, i + 1)

\* sorted(result, key=lambda s: s[1].SliceLocation)
RECURSIVE SortedBySliceLocation(_, _, _)
SortedBySliceLocation(series, i, sorted) ==
    IF i > Len(series) THEN sorted
    ELSE SortedBySliceLocation(series, i + 1,
                               InsertSorted(sorted, series[i], 1))

\* Mutant of SeriesPaths: the sort is never made.
SeriesPathsUnsorted(series) ==
    [error |-> None, paths |-> [i \in 1..Len(series) |-> series[i].path]]

\* The body of the loop over the series: the list of paths of the series, or
\* the AttributeError of the key function on a header without SliceLocation.
SeriesPaths(series) ==
    IF Len(series) # 1 /\ series[2].header.has_slice_location
    THEN IF \E i \in 1..Len(series) : ~series[i].header.has_slice_location
         THEN [error |-> "AttributeError:SliceLocation", paths |-> << >>]
         ELSE LET Paths(sorted) ==
                      [error |-> None,
                       paths |-> [i \in 1..Len(sorted) |-> sorted[i].path]]
              IN  Paths(SortedBySliceLocation(series, 1, << >>))
    ELSE [error |-> None, paths |-> [i \in 1..Len(series) |-> series[i].path]]

\* __get_paths_to_dicoms_from_series: the dictionary as the list of its
\* items, or the error raised.
GetPathsToDicomsFromSeries(files) ==
    LET ids == SeriesIdsFrom(files, 1, << >>)
        items == [k \in 1..Len(ids) |->
                     [series_id |-> ids[k],
                      out |-> SeriesPaths(PathsAndHeadersOfSeries(files, ids[k]))]]
        failing == {k \in 1..Len(ids) : items[k].out.error # None}
    IN  IF failing # {}
        THEN [done |-> TRUE,
              error |-> items[CHOOSE k \in failing :
                                  \A j \in failing : k <= j].out.error,
              series |-> << >>]
        ELSE [done |-> TRUE, error |-> None,
              series |-> [k \in 1..Len(ids) |->
                             [series_id |-> ids[k],
                              paths |-> items[k].out.paths]]]

\* A DicomReader is built on the folder and groups its files.
GroupFiles ==
    /\ ~paths_to_dicoms_from_series.done
    /\ paths_to_dicoms_from_series' = GetPathsToDicomsFromSeries(dicom_files)
    /\ UNCHANGED <<dicom_files, query_vars, prompt_vars, radiomics_vars,
                   extractor_vars, json_vars>>

(***************************************************************************)
(* The four-strategy variants of the choice of the query strategy          *)
(***************************************************************************)
\* Largest number of segmentation paths given to the reader.
MaxSegmentationPaths == 3

\* python's None.
NoneArgument == [is_none |-> TRUE, value |-> << >>]

\* A list, a dictionary or a string given as argument.
GivenArgument(value) == [is_none |-> FALSE, value |-> value]

\* bool(argument): None, an empty list, an empty dictionary and an empty
\* string are false.
Truthy(argument) == ~argument.is_none /\ Len(argument.value) > 0

\* No strategy has been asked for.
NoStrategy == [variant |-> None, strategy |-> None]

\* PatientDataReader.query_type and the patient_data_query_strategy of the
\* PatientDataQueryContext built on a list of paths: the tests 'is None'.
QueryType(segmentations, descriptions) ==
    IF Truthy(segmentations) /\ Truthy(descriptions)
    THEN "SEGMENTATION_AND_SERIES_DESCRIPTION"
    ELSE IF segmentations.is_none /\ Truthy(descriptions)
    THEN "SERIES_DESCRIPTION"
    ELSE IF Truthy(segmentations) /\ descriptions.is_none
    THEN "SEGMENTATION"
    ELSE "DEFAULT"

\* patient_data_query_strategy of the PatientDataQueryContext built on the
\* path to the segmentations folder: the tests 'not ...'.
FolderQueryStrategy(segmentations, descriptions) ==
    IF Truthy(segmentations) /\ Truthy(descriptions)
    THEN "SEGMENTATION_AND_SERIES_DESCRIPTION"
    ELSE IF ~Truthy(segmentations) /\ Truthy(descriptions)
    THEN "SERIES_DESCRIPTION"
    ELSE IF Truthy(segmentations) /\ ~Truthy(descriptions)
    THEN "SEGMENTATION"
    ELSE "DEFAULT"

\* PatientDataReader.query_type
ReaderQueryType ==
    /\ query_strategy' =
           [variant |-> "PatientDataReader.query_type",
            strategy |-> QueryType(paths_to_segmentations,
                                   given_series_descriptions)]
    /\ UNCHANGED <<paths_to_segmentations, given_series_descriptions,
                   grouping_vars, prompt_vars, radiomics_vars, extractor_vars,
                   json_vars>>

\* PatientDataQueryContext.patient_data_query_strategy (list of paths)
ContextQueryStrategy ==
    /\ query_strategy' =
           [variant |-> "PatientDataQueryContext(paths_to_segmentations)",
            strategy |-> QueryType(paths_to_segmentations,
                                   given_series_descriptions)]
    /\ UNCHANGED <<paths_to_segmentations, given_series_descriptions,
                   grouping_vars, prompt_vars, radiomics_vars, extractor_vars,
                   json_vars>>

\* PatientDataQueryContext.patient_data_query_strategy (path to the folder)
FolderContextQueryStrategy ==
    /\ query_strategy' =
           [variant |-> "PatientDataQueryContext(path_to_segmentations_folder)",
            strategy |-> FolderQueryStrategy(paths_to_segmentations,
                                             given_series_descriptions)]
    /\ UNCHANGED <<paths_to_segmentations, given_series_descriptions,
                   grouping_vars, prompt_vars, radiomics_vars, extractor_vars,
                   json_vars>>

\* No reader of the four-strategy variants is in use.
QueryIdle ==
    /\ paths_to_segmentations = NoneArgument
    /\ given_series_descriptions = NoneArgument
    /\ query_strategy = NoStrategy

\* No DicomReader is grouping files.
GroupingIdle ==
    /\ dicom_files = << >>
    /\ paths_to_dicoms_from_series = NotGrouped

(***************************************************************************)
(* The prompting PatientDataReader                                         *)
(***************************************************************************)
\* Largest number of answers refused by update_series_descriptions.
MaxRefusedAnswers == 2

\* Largest number of keys of the dictionary of the prompting reader.
MaxPromptKeys == 2

\* The strings the user may type.
Answers == {"a", "b", "c", None}

\* The lists of series descriptions given for a key.
PromptValueLists == {<< >>, << "a" >>, << "c" >>, << None >>}

\* The dictionaries given to the reader: keys K1, K2, ... in order.
PromptSeriesDescriptions ==
    UNION {{[i \in 1..n |-> Entry(<<"K1", "K2", "K3", "K4">>[i], values[i])] :
               values \in [1..n -> PromptValueLists]} :
           n \in 0..MaxPromptKeys}

\* PatientDataReader.available_series_descriptions
AvailableSeriesDescriptions(headers) == headers \o << None >>

\* any(series in self.available_series_descriptions for series in
\* series_description_list)
AnyAvailable(series_description_list, headers) ==
    \E i \in 1..Len(series_description_list) :
        Contains(AvailableSeriesDescriptions(headers),
                 series_description_list[i])

\* Mutant of AddSeriesDescription: the list is replaced by the answer.
AddSeriesDescriptionAlone(descriptions, k, new_series_description) ==
    [descriptions EXCEPT ![k] = Entry(descriptions[k].key,
                                      << new_series_description >>)]

\* self.series_descriptions[series_key] += [new_series_description]
AddSeriesDescription(descriptions, k, new_series_description) ==
    [descriptions EXCEPT ![k] =
        Entry(descriptions[k].key,
              Append(descriptions[k].values, new_series_description))]

\* The index of the item reached by the loop of the innermost call.
CurrentItem == check_calls[Len(check_calls)]

\* __init__ calls check_availability_of_given_series_description.
CallCheckAvailability ==
    /\ check_calls = << >>
    /\ ~check_returned
    /\ check_calls' = << 1 >>
    /\ UNCHANGED <<header_series_descriptions, reader_series_descriptions,
                   waits_for_input, refused_answers, check_returned,
                   grouping_vars, query_vars, radiomics_vars, extractor_vars,
                   json_vars>>

\* One iteration of the loop over self.series_descriptions.items(): the
\* item passes, or update_series_descriptions is entered.
CheckItem ==
    /\ check_calls # << >>
    /\ ~waits_for_input
    /\ CurrentItem <= Len(reader_series_descriptions)
    /\ IF AnyAvailable(reader_series_descriptions[CurrentItem].values,
                       header_series_descriptions)
       THEN /\ check_calls' = [check_calls EXCEPT ![Len(check_calls)] = @ + 1]
            /\ UNCHANGED waits_for_input
       ELSE /\ waits_for_input' = TRUE
            /\ UNCHANGED check_calls
    /\ UNCHANGED <<header_series_descriptions, reader_series_descriptions,
                   refused_answers, check_returned,
                   grouping_vars, query_vars, radiomics_vars, extractor_vars,
                   json_vars>>

\* input() returns a string that is not available: the loop asks again.
RefusedAnswer ==
    /\ waits_for_input
    /\ refused_answers < MaxRefusedAnswers
    /\ \E new_series_description \in Answers :
           ~Contains(AvailableSeriesDescriptions(header_series_descriptions),
                     new_series_description)
    /\ refused_answers' = refused_answers + 1
    /\ UNCHANGED <<header_series_descriptions, reader_series_descriptions,
                   check_calls, waits_for_input, check_returned,
                   grouping_vars, query_vars, radiomics_vars, extractor_vars,
                   json_vars>>

\* input() returns an available string: it is added to the list of the key
\* and check_availability_of_given_series_description is called again.
AcceptedAnswer ==
    /\ waits_for_input
    /\ \E new_series_description \in Answers :
           /\ Contains(AvailableSeriesDescriptions(header_series_descriptions),
                       new_series_description)
           /\ reader_series_descriptions' =
                  AddSeriesDescription(reader_series_descriptions, CurrentItem,
                                       new_series_description)
    /\ waits_for_input' = FALSE
    /\ check_calls' = Append(check_calls, 1)
    /\ UNCHANGED <<header_series_descriptions, refused_answers,
                   check_returned,
                   grouping_vars, query_vars, radiomics_vars, extractor_vars,
                   json_vars>>

\* The loop of the innermost call is over: the call returns and the loop of
\* its caller goes on with its next item.
ReturnFromCheck ==
    /\ check_calls # << >>
    /\ ~waits_for_input
    /\ CurrentItem > Len(reader_series_descriptions)
    /\ IF Len(check_calls) = 1
       THEN /\ check_calls' = << >>
            /\ check_returned' = TRUE
       ELSE /\ check_calls' =
                  [SubSeq(check_calls, 1, Len(check_calls) - 1)
                      EXCEPT ![Len(check_calls) - 1] = @ + 1]
            /\ UNCHANGED check_returned
    /\ UNCHANGED <<header_series_descriptions, reader_series_descriptions,
                   waits_for_input, refused_answers,
                   grouping_vars, query_vars, radiomics_vars, extractor_vars,
                   json_vars>>

\* No prompting reader is in use.
PromptIdle ==
    /\ header_series_descriptions = << >>
    /\ reader_series_descriptions = << >>
    /\ check_calls = << >>
    /\ waits_for_input = FALSE
    /\ refused_answers = 0
    /\ check_returned = FALSE

(***************************************************************************)
(* RadiomicsDataset.create                                                 *)
(***************************************************************************)
\* The loop over patient_dataset.data: whether an image and a mask are found.
\* The image is the first whose series_key is image_name or, without
\* image_name, whose modality is image_modality; the loop breaks there.  The
\* mask is taken from the segmentations of that image (every segmentation is
\* taken to hold the organ asked for).
RECURSIVE FindImageAndMask(_, _, _, _)
FindImageAndMask(data, name, modality, k) ==
    IF k > Len(data) THEN [image |-> FALSE, mask |-> FALSE]
    ELSE IF \/ name # None /\ data[k].series_key = name
            \/ name = None /\ modality # None /\ data[k].modality = modality
         THEN [image |-> TRUE, mask |-> Len(data[k].segmentations) > 0]
         ELSE FindImageAndMask(data, name, modality, k + 1)

\* The loop 'for patient_idx, patient_dataset in
\* enumerate(patients_data_extractor)' from the position of the extractor:
\* features is the list of the keys of radiomics_features.  The warnings
\* format the undefined name patient_id.
RECURSIVE RadiomicsLoop(_, _, _, _, _, _)
RadiomicsLoop(index, failed, er, name, modality, features) ==
    LET Body(s) ==
            IF s.out.kind = "StopIteration"
            THEN [index |-> s.index, failed |-> s.failed, erased |-> s.erased,
                  error |-> None, features |-> features]
            ELSE IF s.out.kind = "error"
            THEN [index |-> s.index, failed |-> s.failed, erased |-> s.erased,
                  error |-> s.out.error, features |-> features]
            ELSE LET Found(found) ==
                         IF ~found.image \/ ~found.mask
                         THEN [index |-> s.index, failed |-> s.failed,
                               erased |-> s.erased,
                               error |-> "NameError:patient_id",
                               features |-> features]
                         ELSE RadiomicsLoop(s.index, s.failed, s.erased, name,
                                  modality,
                                  Append(features, s.out.record.patient_id))
                 IN  Found(FindImageAndMask(s.out.record.data, name,
                                            modality, 1))
    IN  Body(SendOp(index, failed, er))

\* RadiomicsDataset.create(patients_data_extractor, organ, image_name,
\* image_modality, overwrite_dataset=True) with an extractor set.
CreateRadiomics ==
    /\ (image_name = None) # (image_modality = None)
    /\ \E loop \in {RadiomicsLoop(current_index, patients_who_failed, erased,
                                   image_name, image_modality, << >>)} :
       \E end \in {ResetOp(loop.index, loop.failed)} :
           /\ erased' = loop.erased
           /\ IF loop.error # None
              THEN /\ current_index' = loop.index
                   /\ patients_who_failed' = loop.failed
                   /\ result' = Outcome("radiomics", "error", loop.error, None,
                                        NoRecord, loop.features)
              ELSE /\ current_index' = end.index
                   /\ patients_who_failed' = end.failed
                   /\ result' = Outcome("radiomics", "return", None, None,
                                        NoRecord, loop.features)
    /\ UNCHANGED <<json_vars, other_vars, folders, series_descriptions,
                   erase_unused_dicom_files, transforms, repaired>>

\* No RadiomicsDataset is in use.
RadiomicsIdle ==
    /\ image_name = None
    /\ image_modality = None

\* No component other than the extractor is in use.
OthersIdle == GroupingIdle /\ QueryIdle /\ PromptIdle /\ RadiomicsIdle

\* The state of an extractor that is not used.
ExtractorIdle ==
    /\ folders = << >>
    /\ erased = {}
    /\ series_descriptions = NoneDict
    /\ erase_unused_dicom_files = FALSE
    /\ transforms = FALSE
    /\ current_index = 0
    /\ patients_who_failed = << >>
    /\ result = Outcome("init", "return", None, None, NoRecord, << >>)
    /\ repaired = {}
    /\ json_file = NoFile
    /\ path_to_series_description_json = None
    /\ preferred_encoding = "utf-8"

\* The extractor after its construction over the patient folders.
ExtractorInit ==
    /\ \E n \in 0..MaxPatients :
           folders \in {f \in [1..n -> UNION {FolderKindsAt(p) : p \in 1..n}] :
                           \A i \in 1..n : f[i] \in FolderKindsAt(i)}
    /\ erased = {}
    /\ series_descriptions \in
           {NoneDict} \cup {SomeDict(d) : d \in {x \in InitialTagValues :
                                                   SetterError(x) = None}}
    /\ erase_unused_dicom_files \in BOOLEAN
    /\ transforms \in BOOLEAN
    /\ current_index = 0
    /\ patients_who_failed = << >>
    /\ result = Outcome("init", "return", None, None, NoRecord, << >>)
    /\ repaired = {}
    /\ json_file = NoFile
    /\ path_to_series_description_json = None
    /\ preferred_encoding = "utf-8"

Init == ExtractorInit /\ OthersIdle

Next ==
    \/ Send
    \/ Reset
    \/ Close
    \/ \E d \in SetterInputs : SetSeriesDescriptions(d)
    \/ Create
    \/ UpdateTagValues
    \/ SetPathToSeriesDescriptionJson

Spec == Init /\ [][Next]_vars

\* The extractor over an empty root folder, constructed with a dictionary.
JsonInit ==
    /\ folders = << >>
    /\ erased = {}
    /\ series_descriptions \in
           {SomeDict(d) : d \in {x \in JsonLabelSpecs : SetterError(x) = None}}
    /\ erase_unused_dicom_files = FALSE
    /\ transforms = FALSE
    /\ current_index = 0
    /\ patients_who_failed = << >>
    /\ result = Outcome("init", "return", None, None, NoRecord, << >>)
    /\ repaired = {}
    /\ json_file = NoFile
    /\ path_to_series_description_json = None
    /\ preferred_encoding \in {"utf-8", "cp1252"}
    /\ OthersIdle

JsonNext ==
    \/ SaveSeriesDescriptionsToJson
    \/ SetPathToSeriesDescriptionJson
    \/ \E d \in JsonSetterInputs : SetSeriesDescriptions(d)

JsonSpec == JsonInit /\ [][JsonNext]_vars

\* A patient folder of at most MaxFiles files, read by a DicomReader.
GroupingInit ==
    /\ ExtractorIdle
    /\ \E n \in 0..MaxFiles : dicom_files \in [1..n -> DicomHeaders]
    /\ paths_to_dicoms_from_series = NotGrouped
    /\ QueryIdle
    /\ PromptIdle
    /\ RadiomicsIdle

GroupingNext == GroupFiles

GroupingSpec == GroupingInit /\ [][GroupingNext]_vars

\* An extractor handed to RadiomicsDataset.create with image_name or
\* image_modality.
RadiomicsInit ==
    /\ ExtractorInit
    /\ GroupingIdle
    /\ QueryIdle
    /\ PromptIdle
    /\ \/ image_name \in {"CT_A", "L1"} /\ image_modality = None
       \/ image_name = None /\ image_modality \in {"CT", "PT"}

RadiomicsNext ==
    \/ Send
    \/ Reset
    \/ CreateRadiomics

RadiomicsSpec == RadiomicsInit /\ [][RadiomicsNext]_vars

\* A reader of the four-strategy variants built with None, a list of at most
\* MaxSegmentationPaths paths (or the path to a folder, a string of that
\* length) and None, an empty dictionary or a dictionary of series
\* descriptions.
QueryInit ==
    /\ ExtractorIdle
    /\ GroupingIdle
    /\ PromptIdle
    /\ RadiomicsIdle
    /\ paths_to_segmentations \in
           {NoneArgument}
           \cup {GivenArgument([i \in 1..n |-> i]) :
                     n \in 0..MaxSegmentationPaths}
    /\ given_series_descriptions \in
           {NoneArgument, GivenArgument(<< >>)}
           \cup {GivenArgument(d) : d \in InitialTagValues}
    /\ query_strategy = NoStrategy

QueryNext ==
    \/ ReaderQueryType
    \/ ContextQueryStrategy
    \/ FolderContextQueryStrategy

QuerySpec == QueryInit /\ [][QueryNext]_vars

\* A prompting reader built on a patient folder with a dictionary of series
\* descriptions.
PromptInit ==
    /\ ExtractorIdle
    /\ GroupingIdle
    /\ QueryIdle
    /\ RadiomicsIdle
    /\ header_series_descriptions \in {<< "a" >>, << "a", "b" >>, << "b" >>}
    /\ reader_series_descriptions \in PromptSeriesDescriptions
    /\ check_calls = << >>
    /\ waits_for_input = FALSE
    /\ refused_answers = 0
    /\ check_returned = FALSE

PromptNext ==
    \/ CallCheckAvailability
    \/ CheckItem
    \/ RefusedAnswer
    \/ AcceptedAnswer
    \/ ReturnFromCheck

\* The statements of the reader are executed one after the other, and the
\* user eventually types an available series description at each prompt.
PromptSpec ==
    /\ PromptInit
    /\ [][PromptNext]_vars
    /\ WF_vars(CallCheckAvailability)
    /\ WF_vars(CheckItem)
    /\ WF_vars(ReturnFromCheck)
    /\ WF_vars(AcceptedAnswer)

(***************************************************************************)
(* Properties                                                              *)
(***************************************************************************)
\* The folder read by the advance that starts in the current state.
FolderAtHand == DiskFolder(current_index + 1, erased)

\* The step is an advance that found a folder left to process.
AdvanceOnFolder == result'.op = "send" /\ current_index < NumberOfPatients

\* The step is an advance that returned a patient record.
AdvanceReturnsRecord == result'.op = "send" /\ result'.kind = "record"

ImageSeriesOf(folder) ==
    {folder[i] : i \in {j \in 1..Len(folder) : ~IsSegmentation(folder[j])}}

SegmentationSeriesOf(folder) ==
    {folder[i] : i \in {j \in 1..Len(folder) : IsSegmentation(folder[j])}}

\* C1: over N folders, an advance at index i < N that raises no error
\* returns the record of the folder at position i + 1 of the directory
\* listing and moves the index to i + 1 (so N advances from index 0 return
\* the N folders in listing order, each once); an advance at index N raises
\* StopIteration, and StopIteration is raised at no other index.
C1_AdvancesInListingOrder ==
    [][result'.op = "send" =>
         /\ (current_index = NumberOfPatients =>
                 result'.kind = "StopIteration" /\ current_index' = current_index)
         /\ (current_index < NumberOfPatients => result'.kind # "StopIteration")
         /\ (result'.kind = "record" =>
                 /\ current_index' = current_index + 1
                 /\ result'.record.patient_path = current_index + 1
                 /\ result'.record.patient_id = folders[current_index + 1][1].pid)
    ]_vars

\* C1 witness: the advance after the last of at least two folders has raised
\* StopIteration.
C1_Witness ==
    /\ NumberOfPatients >= 2
    /\ current_index = NumberOfPatients
    /\ result.op = "send"
    /\ result.kind = "StopIteration"

\* C2: reset, in any state, puts the index back to 0 and empties the list of
\* failures, and the advance that follows it does not raise StopIteration
\* when there is a folder, and a record it returns is the one of the first
\* folder.
C2_ResetRestarts ==
    [][/\ (result'.op = "reset" =>
              current_index' = 0 /\ patients_who_failed' = << >>)
       /\ (result.op = "reset" /\ result'.op = "send" /\ NumberOfPatients > 0 =>
              /\ result'.kind # "StopIteration"
              /\ (result'.kind = "record" => result'.record.patient_path = 1))
    ]_vars

\* C2 witness: a reset has acted after the iterator was exhausted (files were
\* erased by the pass) and the first folder has been processed again, with a
\* failure recorded.
C2_Witness ==
    /\ result.op = "send"
    /\ result.kind = "record"
    /\ result.record.patient_path = 1
    /\ current_index = 1
    /\ erased # {}
    /\ \E u \in {"u1", "u2"} : <<2, u>> \in erased

\* The failure entry appended by the step, if any, is for the label key with
\* the accepted values, the patient id and the available values given.
FailureRecorded(key, values, id, available) ==
    /\ Len(patients_who_failed') = Len(patients_who_failed) + 1
    /\ LET e == patients_who_failed'[Len(patients_who_failed')]
       IN  /\ e.id = id
           /\ Contains(e.failed_images, Entry(key, values))
           /\ e.available = available

\* C3: when a patient is processed with a dictionary of tag values, for
\* every label L a failure entry for (patient, L) is recorded if and only if
\* no non-segmentation series of the folder has a tag value in the list of L;
\* the entry carries the patient ID, L with its accepted values and the tag
\* values of all the non-segmentation series of the folder; earlier entries
\* are kept.
C3_FailureIffNoMatch ==
    [][AdvanceOnFolder /\ current_index' = current_index + 1
       /\ ~series_descriptions.is_none =>
         LET d == series_descriptions.dict
             images == GetDicomHeaders(FolderAtHand)
             tag_values_of_folder ==
                 [i \in 1..Len(images) |-> GetSeriesDescription(images[i])]
             NoMatch(L) == \A s \in ImageSeriesOf(FolderAtHand) :
                              ~Contains(L.values, GetSeriesDescription(s))
         IN  /\ \A i \in 1..Len(d) :
                    NoMatch(d[i]) <=>
                        FailureRecorded(d[i].key, d[i].values, images[1].pid,
                                        tag_values_of_folder)
             /\ SubSeq(patients_who_failed', 1, Len(patients_who_failed))
                    = patients_who_failed
             /\ Len(patients_who_failed') <= Len(patients_who_failed) + 1
    ]_vars

\* C3 witness: a patient was processed for which one label of the dictionary
\* failed and another one matched.
C3_Witness ==
    /\ result.op = "send"
    /\ result.kind = "record"
    /\ ~series_descriptions.is_none
    /\ Len(patients_who_failed) = 1
    /\ current_index = 1
    /\ Len(patients_who_failed[1].failed_images) = 1
    /\ Len(series_descriptions.dict) = 2
    /\ Len(result.record.data) = 1

\* Whether some label of the dictionary has no matching series in the folder.
HasFailedLabel(sd, folder) ==
    /\ ~sd.is_none
    /\ \E i \in 1..Len(sd.dict) :
           \A s \in ImageSeriesOf(folder) :
               ~Contains(sd.dict[i].values, GetSeriesDescription(s))

\* C4: the list returned by PatientsDatabase.create after a full pass holds
\* a failure record for every patient of the pass that had a label with no
\* matching series.
C4_CreateReturnsFailures ==
    [][result'.op = "create" /\ result'.kind = "return" =>
         \A i \in 1..NumberOfPatients :
             HasFailedLabel(series_descriptions, DiskFolder(i, erased)) =>
                 \E k \in 1..Len(result'.returned) :
                     result'.returned[k].id = folders[i][1].pid
    ]_vars

\* The accepted-value lists of every two distinct labels are disjoint.
PairwiseDisjoint(d) ==
    \A i, j \in 1..Len(d) :
        i # j => ToSet(d[i].values) \cap ToSet(d[j].values) = {}

\* The record returned by the step contains an image carrying the label.
RecordHasLabel(key) ==
    /\ result'.kind = "record"
    /\ \E k \in 1..Len(result'.record.data) :
           result'.record.data[k].series_key = key

\* The step records a failure for the label.
RecordsFailureFor(key) ==
    /\ Len(patients_who_failed') > Len(patients_who_failed)
    /\ Contains(Keys(patients_who_failed'[Len(patients_who_failed')].failed_images),
                key)

\* The labels repaired for the patient of the folder at hand.
RepairedLabelsAtHand ==
    {key \in ToSet(Keys(series_descriptions.dict)) :
        <<folders[current_index + 1][1].pid, key>> \in repaired}

C6_SetterAcceptsIffDisjoint ==
    [][result'.op = "set" =>
         /\ (result'.kind = "return" =>
                 PairwiseDisjoint(series_descriptions'.dict))
         /\ (result'.kind = "error" => result'.overlap # {})
    ]_vars

\* C7: the strategy of an assembled record is the tag-value strategy exactly
\* when the dictionary of the extractor is a non-empty mapping, whatever the
\* folder: under the tag-value strategy every image of the record carries a
\* label and under the default strategy none does; two advances in a row
\* (same configuration) use the same strategy.
C7_StrategyFromConfiguration ==
    [][AdvanceReturnsRecord =>
         LET non_empty == ~series_descriptions.is_none
                          /\ series_descriptions.dict # << >>
             data == result'.record.data
         IN  /\ result'.strategy = (IF non_empty THEN "TAG_VALUE" ELSE "DEFAULT")
             /\ \A k \in 1..Len(data) :
                    (data[k].series_key # None) <=> non_empty
             /\ (result.op = "send" /\ result.kind = "record" =>
                    result'.strategy = result.strategy)
    ]_vars

\* C7 witness: a patient with images was assembled with the default strategy
\* although a dictionary (an empty one) was supplied, after another patient.
C7_Witness ==
    /\ result.op = "send"
    /\ result.kind = "record"
    /\ ~series_descriptions.is_none
    /\ series_descriptions.dict = << >>
    /\ result.strategy = "DEFAULT"
    /\ Len(result.record.data) > 0
    /\ current_index = 2

\* The tag value of the series appears in the list of some label.
AcceptedBySomeLabel(d, s) ==
    \E i \in 1..Len(d) : Contains(d[i].values, GetSeriesDescription(s))

\* The entries of the record returned by the step that hold the series.
EntriesOf(s) ==
    {k \in 1..Len(result'.record.data) : result'.record.data[k].uid = s.uid}

\* The step is an advance that returned a record under the tag-value strategy.
TagValueRecord == AdvanceReturnsRecord /\ result'.strategy = "TAG_VALUE"

\* The step is an advance that returned a record under the default strategy.
DefaultRecord == AdvanceReturnsRecord /\ result'.strategy = "DEFAULT"

\* The entry of the record carries one label, whose list contains the tag
\* value of the series.
CarriesAcceptingLabel(d, k, s) ==
    \E i \in 1..Len(d) :
        /\ result'.record.data[k].series_key = d[i].key
        /\ Contains(d[i].values, GetSeriesDescription(s))

\* C8 (as claimed): under the tag-value strategy the record contains exactly
\* the image series of the patient whose tag value is in the list of some
\* label, each once and with a label whose list contains its tag value.
C8_RecordIsTheMatchingSeries ==
    [][TagValueRecord =>
         LET d == series_descriptions.dict
         IN  \A s \in ImageSeriesOf(FolderAtHand) :
                 IF AcceptedBySomeLabel(d, s)
                 THEN /\ Cardinality(EntriesOf(s)) = 1
                      /\ \A k \in EntriesOf(s) : CarriesAcceptingLabel(d, k, s)
                 ELSE EntriesOf(s) = {}
    ]_vars

\* C8 (amended): under the tag-value strategy the record contains exactly
\* the image series of the patient that have a series description, whose
\* volume can be reconstructed and whose tag value is in the list of some
\* label, each once and with a label whose list contains its tag value;
\* every entry of the record is such a series.
C8_RecordIsTheLoadedMatchingSeries ==
    [][TagValueRecord =>
         LET d == series_descriptions.dict
         IN  /\ \A s \in ImageSeriesOf(FolderAtHand) :
                    IF AcceptedBySomeLabel(d, s) /\ s.desc # None /\ s.decodable
                    THEN /\ Cardinality(EntriesOf(s)) = 1
                         /\ \A k \in EntriesOf(s) :
                                CarriesAcceptingLabel(d, k, s)
                    ELSE EntriesOf(s) = {}
             /\ \A k \in 1..Len(result'.record.data) :
                    \E s \in ImageSeriesOf(FolderAtHand) :
                        result'.record.data[k].uid = s.uid
    ]_vars

\* C8 witness: a record of the tag-value strategy leaves out an image that
\* no label accepts and holds, with its segmentation, one that a label
\* accepts.
C8_Witness ==
    /\ result.op = "send"
    /\ result.kind = "record"
    /\ result.strategy = "TAG_VALUE"
    /\ Len(result.record.data) = 1
    /\ Len(result.record.data[1].segmentations) = 1
    /\ Len(GetImagesData(folders[result.record.patient_path])) = 2

\* C9 (as claimed): under the default strategy the record has exactly one
\* entry per non-segmentation series of the folder, keyed by the modality
\* code of the series.
C9_DefaultKeepsEverySeries ==
    [][DefaultRecord =>
         /\ \A s \in ImageSeriesOf(FolderAtHand) :
                /\ Cardinality(EntriesOf(s)) = 1
                /\ \A k \in EntriesOf(s) :
                       TransformsKey(result'.record.data[k]) = s.modality
         /\ Len(result'.record.data) = Cardinality(ImageSeriesOf(FolderAtHand))
    ]_vars

\* C9 (amended): under the default strategy the record has exactly one entry
\* per non-segmentation series of the folder that has a series description
\* and whose volume can be reconstructed, and no other entry; the entry has
\* no assigned label and is keyed by the modality code of the series.
C9_DefaultKeepsEveryLoadedSeries ==
    [][DefaultRecord =>
         LET kept == {s \in ImageSeriesOf(FolderAtHand) :
                         s.desc # None /\ s.decodable}
         IN  /\ \A s \in kept :
                    /\ Cardinality(EntriesOf(s)) = 1
                    /\ \A k \in EntriesOf(s) :
                           /\ result'.record.data[k].series_key = None
                           /\ TransformsKey(result'.record.data[k]) = s.modality
             /\ Len(result'.record.data) = Cardinality(kept)
    ]_vars

\* C9 witness: a record of the default strategy for a folder with a series
\* that is left out and a segmentation.
C9_Witness ==
    /\ result.op = "send"
    /\ result.kind = "record"
    /\ result.strategy = "DEFAULT"
    /\ Len(result.record.data) = 1
    /\ Len(folders[result.record.patient_path]) = 3

\* The reference UID of a segmentation header: the direct one when present,
\* else the one of the frame of reference chain.
ResolvedReference(s) == IF s.direct # None THEN s.direct ELSE s.frame

\* C10: in a record returned under either strategy, a segmentation series of
\* the patient is in the list of an image exactly when its resolved
\* reference UID is the series UID of the image, and then once (every
\* matching segmentation is attached); nothing else is attached; and the
\* reference error is raised only for a header that has neither shape.
C10_SegmentationsAttachedByReference ==
    [][result'.op = "send" =>
         /\ (result'.kind = "record" =>
                \A k \in 1..Len(result'.record.data) :
                    LET e == result'.record.data[k]
                    IN  /\ \A s \in SegmentationSeriesOf(FolderAtHand) :
                               Count(e.segmentations, s.uid) =
                                   (IF ResolvedReference(s) = e.uid THEN 1 ELSE 0)
                        /\ \A j \in 1..Len(e.segmentations) :
                               \E s \in SegmentationSeriesOf(FolderAtHand) :
                                   s.uid = e.segmentations[j])
         /\ (result'.error = NoReference =>
                \E s \in SegmentationSeriesOf(FolderAtHand) :
                    s.direct = None /\ s.frame = None)
    ]_vars

\* C10 witness: a record in which one image has two segmentations and
\* another has none, for a folder with a segmentation that refers to no
\* image of the folder.
C10_Witness ==
    /\ result.op = "send"
    /\ result.kind = "record"
    /\ Len(result.record.data) = 2
    /\ Len(result.record.data[1].segmentations) = 2
    /\ Len(result.record.data[2].segmentations) = 0
    /\ Len(PathsToSegmentations(folders[result.record.patient_path])) = 3

\* C11: a selection miss is not raised: when a folder that the grouper
\* accepts is processed with a dictionary none of whose labels accepts the
\* tag value of any image series of the folder, the advance returns a record
\* with an empty list of images, a failure entry naming every label of the
\* dictionary is appended, and the index moves to the next folder.
C11_MissIsNeverRaised ==
    [][/\ AdvanceOnFolder
       /\ ~series_descriptions.is_none
       /\ Len(series_descriptions.dict) > 0
       /\ SeriesDataDictError(FolderAtHand) = None
       /\ \A s \in ImageSeriesOf(FolderAtHand) :
              ~AcceptedBySomeLabel(series_descriptions.dict, s)
       => /\ result'.kind = "record"
          /\ result'.record.data = << >>
          /\ Len(patients_who_failed') = Len(patients_who_failed) + 1
          /\ Keys(patients_who_failed'[Len(patients_who_failed')].failed_images)
                 = Keys(series_descriptions.dict)
          /\ current_index' = current_index + 1
    ]_vars

\* The patient IDs reported by the files of the folder, all files of all
\* series.
PatientIdsOfFiles(folder) ==
    UNION {{folder[i].pid} \cup folder[i].other_pids : i \in 1..Len(folder)}

\* C12: when the files of the folder at hand report two different patient
\* IDs, in different series or within one series, the advance raises the
\* configuration error of the grouper: no record is returned, no failure is
\* recorded and the index does not move.
C12_TwoPatientIdsRaise ==
    [][AdvanceOnFolder /\ Cardinality(PatientIdsOfFiles(FolderAtHand)) > 1
       => /\ result'.kind = "error"
          /\ result'.error = "AssertionError:SeveralPatientIds"
          /\ patients_who_failed' = patients_who_failed
          /\ current_index' = current_index
    ]_vars

\* The segmentation series is in the list of the entry k of the record
\* returned by the step.
AttachedTo(s, k) == Contains(result'.record.data[k].segmentations, s.uid)

\* C13: the reference UID of a segmentation header is the UID of the direct
\* referenced-series sequence whenever the header has one, also when it has
\* the frame-of-reference chain too; it is the UID at the end of the chain
\* when the header has only the chain; and the resolution raises the
\* configuration error when the header has neither: in a record that holds
\* images, each segmentation is attached to the image of that UID and to no
\* other, and no segmentation of the folder lacks both shapes.
C13_ReferenceResolverOrder ==
    [][AdvanceReturnsRecord =>
         \A k \in 1..Len(result'.record.data) :
             \A s \in SegmentationSeriesOf(FolderAtHand) :
                 /\ (s.direct # None =>
                        (AttachedTo(s, k) <=> result'.record.data[k].uid = s.direct))
                 /\ (s.direct = None /\ s.frame # None =>
                        (AttachedTo(s, k) <=> result'.record.data[k].uid = s.frame))
                 /\ ~(s.direct = None /\ s.frame = None)
    ]_vars

\* C13 witness: a record that holds an image was returned for a folder with
\* a segmentation whose header has both shapes, the chain leading to that
\* image and the direct sequence to another series.
C13_Witness ==
    /\ result.op = "send"
    /\ result.kind = "record"
    /\ \E k \in 1..Len(result.record.data) :
           \E s \in SegmentationSeriesOf(folders[result.record.patient_path]) :
               /\ s.direct # None
               /\ s.frame = result.record.data[k].uid
               /\ s.direct # s.frame
               /\ result.record.data[k].segmentations = << >>

\* The header of the segmentation series has neither reference-UID shape.
HasNoReference(s) == s.direct = None /\ s.frame = None

\* C14: when the folder at hand, accepted by the grouper, contains a
\* segmentation series whose header has neither reference-UID shape, the
\* advance raises the configuration error and returns no record, under
\* either strategy, whatever the images and whether or not an image matches
\* a label.
C14_NoReferenceAlwaysRaises ==
    [][/\ AdvanceOnFolder
       /\ SeriesDataDictError(FolderAtHand) = None
       /\ \E s \in SegmentationSeriesOf(FolderAtHand) : HasNoReference(s)
       => /\ result'.kind = "error"
          /\ result'.error = NoReference
    ]_vars

\* C15: with erase_unused_dicom_files at False no file of any patient folder
\* is ever removed, whatever operations are applied and under either
\* strategy.
C15_NothingErasedByDefault ==
    erase_unused_dicom_files = FALSE => erased = {}

\* C15 witness: with the flag at False, a record was returned under the
\* tag-value strategy for a folder of which a loaded image matched no label,
\* and every file is still on disk.
C15_Witness ==
    /\ erase_unused_dicom_files = FALSE
    /\ erased = {}
    /\ result.op = "send"
    /\ result.kind = "record"
    /\ result.strategy = "TAG_VALUE"
    /\ Len(result.record.data) <
           Len(GetImagesData(folders[result.record.patient_path]))

\* C16: with erase_unused_dicom_files enabled, what a step removes from disk
\* are files of image series of a folder whose tag value is in the list of
\* no label, under the tag-value strategy only; the files of the images of
\* the record returned and the files of the segmentation series stay on
\* disk; under the default strategy nothing is removed.
C16_ErasesOnlyUnmatchedImages ==
    [][/\ \A e \in erased' \ erased :
              /\ erase_unused_dicom_files
              /\ PatientDataQueryStrategy(series_descriptions) = "TAG_VALUE"
              /\ \E s \in ImageSeriesOf(folders[e[1]]) :
                     /\ s.uid = e[2]
                     /\ ~AcceptedBySomeLabel(series_descriptions.dict, s)
       /\ (AdvanceReturnsRecord =>
              \A k \in 1..Len(result'.record.data) :
                  <<result'.record.patient_path, result'.record.data[k].uid>>
                      \notin erased')
       /\ \A i \in 1..NumberOfPatients :
              \A s \in SegmentationSeriesOf(folders[i]) :
                  <<i, s.uid>> \notin erased'
    ]_vars

\* C16 witness: with the flag enabled, a record was returned that keeps an
\* image with its segmentation while the other image of the folder, which
\* matched no label, was erased.
C16_Witness ==
    /\ erase_unused_dicom_files
    /\ result.op = "send"
    /\ result.kind = "record"
    /\ Len(result.record.data) = 1
    /\ Len(result.record.data[1].segmentations) = 1
    /\ \E u \in {"u1", "u2"} :
           /\ <<result.record.patient_path, u>> \in erased
           /\ u # result.record.data[1].uid

C18_JsonRoundTrip ==
    [][/\ result'.op = "load"
       /\ json_file.exists
       /\ json_file.text = JsonDump(series_descriptions.dict)
       => /\ result'.kind = "return"
          /\ series_descriptions' = series_descriptions
    ]_vars

\* The folder has an image series whose volume cannot be reconstructed.
HasUndecodableSeries(folder) == \E s \in ImageSeriesOf(folder) : ~s.decodable

\* The step is an advance for which the factory was built, so that
\* get_images_data has run on the folder at hand.
AdvanceLoadsImages == AdvanceOnFolder /\ current_index' = current_index + 1

\* The series UIDs of a list of series or of record entries, in order.
UidsOf(list) == [k \in 1..Len(list) |-> list[k].uid]

\* C19 (as claimed): when an image series of the folder cannot be
\* reconstructed, get_images_data returns every decodable image series of
\* the folder, in the order of the folder, and only those.
C19_DropsExactlyTheUndecodable ==
    [][AdvanceLoadsImages /\ HasUndecodableSeries(FolderAtHand) =>
         GetImagesData(FolderAtHand) =
             SelectSeq(FolderAtHand,
                       LAMBDA s : ~IsSegmentation(s) /\ s.decodable)
    ]_vars

\* C19 (amended): when an image series of the folder cannot be
\* reconstructed, get_images_data returns, in the order of the folder, every
\* decodable image series that has a SeriesDescription, and only those; the
\* record returned under the default strategy holds them in that order; and
\* the advance raises for no other reason than a segmentation without
\* reference, two images under one transforms key, or no image being left.
C19_DropsTheUndecodableKeepsTheOrder ==
    [][AdvanceLoadsImages /\ HasUndecodableSeries(FolderAtHand) =>
         LET kept == SelectSeq(FolderAtHand,
                         LAMBDA s : /\ ~IsSegmentation(s)
                                    /\ s.decodable
                                    /\ s.desc # None)
         IN  /\ GetImagesData(FolderAtHand) = kept
             /\ (DefaultRecord => UidsOf(result'.record.data) = UidsOf(kept))
             /\ (result'.kind = "error" =>
                    \/ result'.error = NoReference
                    \/ result'.error = "AssertionError:KeyAlreadyInDict"
                    \/ result'.error = "IndexError:PatientId" /\ kept = << >>)
    ]_vars

\* C19 witness: a record with an image was returned under the default
\* strategy for a folder whose first series cannot be reconstructed.
C19_Witness ==
    /\ result.op = "send"
    /\ result.kind = "record"
    /\ result.strategy = "DEFAULT"
    /\ Len(result.record.data) = 1
    /\ ~folders[result.record.patient_path][1].decodable
    /\ result.record.data[1].uid = folders[result.record.patient_path][2].uid

\* C20: once an advance has reported the end of the sequence, a further
\* advance is signalled by something else than the StopIteration of the
\* normal end.
C20_PastTheEndIsSignalledDistinctly ==
    result.op = "send" /\ result.kind = "StopIteration" =>
        SendOp(current_index, patients_who_failed, erased).out.kind
            # "StopIteration"

\* C21: every advance either returns a patient record having increased the
\* index by exactly one, or raises and leaves both the index and the failure
\* list exactly as they were before the call.
C21_AdvanceIsAtomic ==
    [][result'.op = "send" =>
         \/ /\ result'.kind = "record"
            /\ current_index' = current_index + 1
         \/ /\ result'.kind \in {"error", "StopIteration"}
            /\ current_index' = current_index
            /\ patients_who_failed' = patients_who_failed
    ]_vars

\* The labels carried by the images of the record returned by the step.
LabelsOfRecord ==
    {result'.record.data[k].series_key : k \in 1..Len(result'.record.data)}

\* The labels of the failure entry appended by the step, if any.
LabelsFailedByStep ==
    IF Len(patients_who_failed') = Len(patients_who_failed) THEN {}
    ELSE LET entry == patients_who_failed'[Len(patients_who_failed')]
         IN  {entry.failed_images[i].key : i \in 1..Len(entry.failed_images)}

\* C22: for every patient processed with a LabelSpec and every label, either
\* a failure entry for (patient, label) is recorded or the returned record
\* contains at least one image carrying that label.
C22_CoveredOrFailed ==
    [][(AdvanceReturnsRecord /\ result'.strategy = "TAG_VALUE") =>
         \A key \in ToSet(Keys(series_descriptions.dict)) :
             key \in LabelsFailedByStep \/ key \in LabelsOfRecord
    ]_vars

\* The operations that start again from an empty failure list: reset(),
\* PatientsDatabase.create (which resets first) and the construction of a new
\* extractor by the repair.
StepResets ==
    \/ result'.op \in {"reset", "create"}
    \/ result'.op = "update" /\ result'.kind = "return"

\* The failure list holds at most one entry per patient visited, in
\* visitation order (the patient of the folder at position i has PatientID i).
OnePerVisitedPatientInOrder(failed, index) ==
    /\ \A k \in 1..Len(failed) : failed[k].id \in 1..index
    /\ \A j, k \in 1..Len(failed) : j < k => failed[j].id < failed[k].id

\* C23: between two resets the failure list only grows by appending: at most
\* one entry per patient visited, in visitation order, an existing entry is
\* never modified or removed, and the entry of patient k is appended during
\* the advance that processes patient k.
C23_FailuresOnlyAppended ==
    [][/\ OnePerVisitedPatientInOrder(patients_who_failed', current_index')
       /\ ~StepResets =>
              /\ Len(patients_who_failed') \in
                     {Len(patients_who_failed), Len(patients_who_failed) + 1}
              /\ SubSeq(patients_who_failed', 1, Len(patients_who_failed))
                     = patients_who_failed
              /\ Len(patients_who_failed') = Len(patients_who_failed) + 1 =>
                     /\ AdvanceOnFolder
                     /\ current_index' = current_index + 1
                     /\ patients_who_failed'[Len(patients_who_failed')].id
                            = ReaderPatientId(FolderAtHand)
    ]_vars

\* C23 witness: two advances have each appended the entry of their patient.
C23_Witness ==
    /\ result.op = "send"
    /\ current_index = 2
    /\ Len(patients_who_failed) = 2
    /\ patients_who_failed[1].id = 1
    /\ patients_who_failed[2].id = 2

\* The advance that starts in the current state, as send carries it out.
AdvanceAtHand == SendOp(current_index, patients_who_failed, erased)

\* C24: with N patient folders 0 <= index <= N in every reachable state;
\* once index = N every further advance raises StopIteration and changes
\* neither the index nor the failure list, until reset() is called; close()
\* changes neither.
C24_IndexBoundedExhaustionStable ==
    [][/\ current_index \in 0..NumberOfPatients
       /\ current_index' \in 0..NumberOfPatients
       /\ current_index = NumberOfPatients =>
              /\ AdvanceAtHand.out.kind = "StopIteration"
              /\ AdvanceAtHand.index = current_index
              /\ AdvanceAtHand.failed = patients_who_failed
       /\ (current_index = NumberOfPatients /\ result'.op \notin
               {"reset", "create", "update"}) =>
              current_index' = NumberOfPatients
       /\ result'.op = "close" =>
              /\ current_index' = current_index
              /\ patients_who_failed' = patients_who_failed
    ]_vars

\* C24 witness: the extractor is exhausted over two folders with a failure
\* recorded, and close() has just returned.
C24_Witness ==
    /\ NumberOfPatients = 2
    /\ current_index = NumberOfPatients
    /\ Len(patients_who_failed) > 0
    /\ result.op = "close"

\* The paths of the files of the series in discovery order.
FilesOfSeries(series_id) ==
    SelectSeq([i \in 1..Len(dicom_files) |-> i],
              LAMBDA i : dicom_files[i].SeriesInstanceUID = series_id)

\* C25: grouping never raises; every file is placed in exactly one bucket,
\* the bucket of its series UID, and the output of a bucket is a permutation
\* of its files; a bucket of more than one file whose headers expose a slice
\* location is sorted by slice location ascending, and a bucket whose headers
\* do not expose it keeps discovery order.
C25_SeriesGrouping ==
    paths_to_dicoms_from_series.done =>
        LET series == paths_to_dicoms_from_series.series
        IN  /\ paths_to_dicoms_from_series.error = None
            /\ \A i \in 1..Len(dicom_files) :
                   Cardinality({<<k, j>> \in (1..Len(series)) \X (1..MaxFiles) :
                                   /\ j <= Len(series[k].paths)
                                   /\ series[k].paths[j] = i}) = 1
            /\ \A k \in 1..Len(series) :
                   LET paths == series[k].paths
                       files == FilesOfSeries(series[k].series_id)
                   IN  /\ ToSet(paths) = ToSet(files)
                       /\ Len(paths) = Len(files)
                       /\ (\A j \in 1..Len(paths) :
                               dicom_files[paths[j]].has_slice_location) =>
                              \A j \in 1..(Len(paths) - 1) :
                                  dicom_files[paths[j]].SliceLocation
                                      <= dicom_files[paths[j + 1]].SliceLocation
                       /\ (\A j \in 1..Len(paths) :
                               ~dicom_files[paths[j]].has_slice_location) =>
                              paths = files

\* The key the claim gives to the image of a record entry: its label if it
\* has one, its modality otherwise.
LabelOrModality(e) == IF e.series_key = None THEN e.modality ELSE e.series_key

\* Two images of the list would get the same key.
SharesAKey(data) ==
    \E i, j \in 1..Len(data) :
        i < j /\ LabelOrModality(data[i]) = LabelOrModality(data[j])

\* The rank of the first image whose key is the key of an earlier image.
FirstRepeatedKey(data) ==
    CHOOSE j \in 1..Len(data) :
        /\ \E i \in 1..(j - 1) : LabelOrModality(data[i]) = LabelOrModality(data[j])
        /\ \A m \in 1..(j - 1) :
               \A i \in 1..(m - 1) :
                   LabelOrModality(data[i]) # LabelOrModality(data[m])

\* The step is an advance with transforms whose factory built the list of
\* the images of the patient.
AdvanceAppliesTransforms ==
    /\ AdvanceOnFolder
    /\ transforms
    /\ current_index' = current_index + 1
    /\ CreatePatientData(FolderAtHand, series_descriptions,
                         erase_unused_dicom_files).error = None

\* What the claim and its amended form share: without a shared key the record
\* is returned, each image transformed under its label or else its modality
\* and the keys pairwise distinct; with a shared key AssertionError is raised
\* and no transform has been applied.
KeysAreSetOrAssertionRaised(data, applied) ==
    /\ SharesAKey(data) <=> result'.error = "AssertionError:KeyAlreadyInDict"
    /\ ~SharesAKey(data) =>
           /\ result'.kind = "record"
           /\ result'.record.data = data
           /\ \A i \in 1..Len(data) :
                  /\ applied.transforms_keys[i] = LabelOrModality(data[i])
                  /\ applied.transformed[i]
           /\ \A i, j \in 1..Len(data) :
                  i # j => applied.transforms_keys[i] # applied.transforms_keys[j]
    /\ SharesAKey(data) =>
           /\ result'.kind = "error"
           /\ \A i \in 1..Len(data) : ~applied.transformed[i]

\* C26 as stated: when transforms are applied each image's transform key is
\* its label if it has one and its modality otherwise and the keys of one
\* record are pairwise distinct; if two kept images would get the same key
\* AssertionError is raised before any transform is applied and no image has
\* been modified (no image has been given a transforms_key).
C26_DistinctKeysOrUntouchedImages ==
    [][AdvanceAppliesTransforms =>
         \E created \in {CreatePatientData(FolderAtHand, series_descriptions,
                                           erase_unused_dicom_files)} :
         \E applied \in {ApplyTransforms(created.data)} :
             /\ KeysAreSetOrAssertionRaised(created.data, applied)
             /\ SharesAKey(created.data) =>
                    \A i \in 1..Len(created.data) :
                        applied.transforms_keys[i] = None
    ]_vars

\* C26 amended: as above, except that when AssertionError is raised the
\* images that precede the first image with a repeated key have been given
\* their transforms_key; the other images have none.
C26_DistinctKeysOrAssertionRaised ==
    [][AdvanceAppliesTransforms =>
         \E created \in {CreatePatientData(FolderAtHand, series_descriptions,
                                           erase_unused_dicom_files)} :
         \E applied \in {ApplyTransforms(created.data)} :
             /\ KeysAreSetOrAssertionRaised(created.data, applied)
             /\ SharesAKey(created.data) =>
                    \A i \in 1..Len(created.data) :
                        applied.transforms_keys[i] =
                            IF i < FirstRepeatedKey(created.data)
                            THEN LabelOrModality(created.data[i])
                            ELSE None
    ]_vars

\* C26 witness: an advance with transforms under a LabelSpec has raised the
\* AssertionError of set_transforms_keys.
C26_Witness ==
    /\ result.op = "send"
    /\ result.error = "AssertionError:KeyAlreadyInDict"
    /\ transforms
    /\ ~series_descriptions.is_none

\* The strategy decided by the two facts 'segmentations supplied' and
\* 'series descriptions supplied'.
StrategyOfTwoFacts(segmentations_supplied, descriptions_supplied) ==
    IF segmentations_supplied /\ descriptions_supplied
    THEN "SEGMENTATION_AND_SERIES_DESCRIPTION"
    ELSE IF descriptions_supplied THEN "SERIES_DESCRIPTION"
    ELSE IF segmentations_supplied THEN "SEGMENTATION"
    ELSE "DEFAULT"

\* C28: in the four-strategy variants the strategy is decided by two facts
\* only, 'segmentations supplied' (a non-empty list) and 'series descriptions
\* supplied' (a non-empty mapping); in particular an empty segmentation list
\* with a non-empty LabelSpec selects the series-description strategy, as
\* None does.
C28_StrategyOfTwoFacts ==
    query_strategy.variant # None =>
        query_strategy.strategy =
            StrategyOfTwoFacts(
                ~paths_to_segmentations.is_none
                    /\ Len(paths_to_segmentations.value) > 0,
                ~given_series_descriptions.is_none
                    /\ Len(given_series_descriptions.value) > 0)

\* The lists of accepted values only ever grow by appending.
OnlyAppendsValues ==
    /\ Len(reader_series_descriptions') = Len(reader_series_descriptions)
    /\ \A k \in 1..Len(reader_series_descriptions) :
           /\ reader_series_descriptions'[k].key
                  = reader_series_descriptions[k].key
           /\ Len(reader_series_descriptions'[k].values)
                  >= Len(reader_series_descriptions[k].values)
           /\ SubSeq(reader_series_descriptions'[k].values, 1,
                     Len(reader_series_descriptions[k].values))
                  = reader_series_descriptions[k].values

\* Every key has an accepted value among the strings of the set.
EveryKeyAccepts(strings) ==
    \A k \in 1..Len(reader_series_descriptions) :
        ToSet(reader_series_descriptions[k].values) \cap strings # {}

\* C30 as stated: check_availability_of_given_series_description terminates
\* provided the user eventually enters an available description for each
\* prompt; it only ever appends values to the lists of accepted values; when
\* it returns, every label has at least one accepted value equal to the
\* series description of one of the patient's series.
C30_TerminatesWithASeriesForEveryLabel ==
    /\ <>check_returned
    /\ [][OnlyAppendsValues]_vars
    /\ [](check_returned =>
              EveryKeyAccepts(ToSet(header_series_descriptions)))

\* C30 amended: as above, except that when it returns every label has at
\* least one accepted value that is the series description of one of the
\* patient's series or the string "None", which the prompt accepts as well.
C30_TerminatesWithAnAvailableValueForEveryLabel ==
    /\ <>check_returned
    /\ [][OnlyAppendsValues]_vars
    /\ [](check_returned =>
              EveryKeyAccepts(ToSet(header_series_descriptions) \cup {None}))

\* C30 witness: the check has returned after the user was asked about the
\* second key, one answer having been refused.
C30_Witness ==
    /\ check_returned
    /\ refused_answers > 0
    /\ Len(reader_series_descriptions) = 2
    /\ Len(reader_series_descriptions[2].values) = 2

\* The step is a LabelSpec rejected by the setter of series_descriptions or
\* by the setter of path_to_series_description_json.
LabelSpecRejected ==
    /\ result'.op \in {"set", "load"}
    /\ result'.kind = "error"

\* C29: when the series_descriptions setter raises on an overlapping
\* mapping, or loading the LabelSpec JSON file fails, the stored LabelSpec,
\* the stored JSON path, the index and the failure list keep their values.
C29_RejectedLabelSpecChangesNothing ==
    [][LabelSpecRejected =>
         /\ series_descriptions' = series_descriptions
         /\ path_to_series_description_json' = path_to_series_description_json
         /\ current_index' = current_index
         /\ patients_who_failed' = patients_who_failed
    ]_vars

\* C29 witness: a LabelSpec has been rejected while the extractor was on its
\* second folder with a LabelSpec stored and a failure recorded.
C29_Witness ==
    /\ result.op \in {"set", "load"}
    /\ result.kind = "error"
    /\ ~series_descriptions.is_none
    /\ current_index = 1
    /\ Len(patients_who_failed) = 1

\* The advances of a pass over all the folders: the last one raises
\* StopIteration when no advance fails.
EveryAdvanceReturns(outcomes) ==
    outcomes[Len(outcomes)].kind = "StopIteration"

\* The PatientID of the patients, in folder order, for which an image and a
\* mask are found.
RECURSIVE PatientsWithImageAndMask(_, _)
PatientsWithImageAndMask(outcomes, k) ==
    IF k > Len(outcomes) \/ outcomes[k].kind # "record" THEN << >>
    ELSE LET found == FindImageAndMask(outcomes[k].record.data, image_name,
                                       image_modality, 1)
         IN  (IF found.image /\ found.mask
              THEN << outcomes[k].record.patient_id >> ELSE << >>)
             \o PatientsWithImageAndMask(outcomes, k + 1)

\* C27: RadiomicsDataset.create processes every patient folder of the
\* extractor whatever its position when create is called, and a patient for
\* which no matching image or no mask is found is skipped with a warning
\* while the remaining patients are still processed: when no advance fails,
\* create returns having extracted the features of exactly the patients, of
\* all the folders, that have a matching image and a mask.
C27_RadiomicsProcessesEveryPatient ==
    [][result'.op = "radiomics" =>
         \E outcomes \in {PassOutcomes(0, << >>, erased)} :
             EveryAdvanceReturns(outcomes) =>
                 /\ result'.kind = "return"
                 /\ result'.returned = PatientsWithImageAndMask(outcomes, 1)
    ]_vars

====
